---- MODULE Spec2Model ----
(***************************************************************************)
(* gradon: incremental tree aggregation of per-file metrics into a stats   *)
(* store (src/gradon/stats.py), the store's file systems                   *)
(* (src/gradon/file_system.py), the cached stats adapter                   *)
(* (src/gradon/stats_fs_adapter.py) and the commit replay                  *)
(* (src/gradon/core.py).                                                   *)
(*                                                                         *)
(* Paths are modelled as the strings the code handles, so that             *)
(* os.path.join, os.path.dirname, the './' normalisation and the           *)
(* (-len(path), path) heap order are computed as the code computes them.   *)
(***************************************************************************)
EXTENDS Integers, Sequences, FiniteSets, Bags, TLC

(***************************************************************************)
(* Bounds of the model.                                                    *)
(***************************************************************************)
MaxOps == 3
MaxChanged == 1
MaxInitial == 2

\* a local variable: Body evaluated with its parameter bound to v
With(v, Body(_)) == Body(v)

(***************************************************************************)
(* String helpers (Python str methods and posixpath functions used by the  *)
(* code).                                                                  *)
(***************************************************************************)
Char(s, i) == SubSeq(s, i, i)

\* s.startswith(p)
StartsWith(s, p) == Len(s) >= Len(p) /\ SubSeq(s, 1, Len(p)) = p

\* s.endswith(p)
EndsWith(s, p) == Len(s) >= Len(p) /\ SubSeq(s, Len(s) - Len(p) + 1, Len(s)) = p

\* s.rfind('/', 0, i) + 1: the index of the last '/' among the first i
\* characters, 0 when there is none
LastSlashFrom(s, i) ==
    With({j \in 1..i : Char(s, j) = "/"}, LAMBDA found :
        IF found = {} THEN 0 ELSE CHOOSE j \in found : \A k \in found : k <= j)

LastSlash(s) == LastSlashFrom(s, Len(s))

\* s.rstrip('/')
RECURSIVE RStripSlash(_)
RStripSlash(s) ==
    IF Len(s) > 0 /\ Char(s, Len(s)) = "/"
    THEN RStripSlash(SubSeq(s, 1, Len(s) - 1))
    ELSE s

\* os.path.dirname (posixpath): the head of split at the last '/', trailing
\* slashes stripped unless the head is all slashes
Dirname(s) ==
    With(SubSeq(s, 1, LastSlash(s)), LAMBDA head :
    With(RStripSlash(head), LAMBDA stripped :
        IF stripped = "" THEN head ELSE stripped))

\* os.path.dirname(path) or '.'
DirnameOrDot(path) == With(Dirname(path), LAMBDA d : IF d = "" THEN "." ELSE d)

\* os.path.basename (posixpath)
Basename(s) == SubSeq(s, LastSlash(s) + 1, Len(s))

\* os.path.join(a, b) (posixpath): an absolute b discards a
Join(a, b) ==
    IF StartsWith(b, "/") THEN b
    ELSE IF a = "" \/ EndsWith(a, "/") THEN a \o b
    ELSE a \o "/" \o b

\* s.find(sub, i - 1) + 1: the least index from i on where sub occurs, 0 when
\* there is none
Find(s, sub, i) ==
    With({j \in i..(Len(s) - Len(sub) + 1) : SubSeq(s, j, j + Len(sub) - 1) = sub},
         LAMBDA found :
        IF found = {} THEN 0 ELSE CHOOSE j \in found : \A k \in found : j <= k)

\* s.replace(old, new), also re.sub of a literal pattern: non-overlapping
\* matches, left to right
RECURSIVE Replace(_, _, _)
Replace(s, old, new) ==
    With(Find(s, old, 1), LAMBDA i :
        IF i = 0 THEN s
        ELSE SubSeq(s, 1, i - 1) \o new
             \o Replace(SubSeq(s, i + Len(old), Len(s)), old, new))

\* FileSystem._normalize_path and CachedStatsFSAdapterMixin._normalize_path:
\* re.sub(r'^\./', '', re.sub(r'/\./', '/', path))
NormalizePath(path) ==
    With(Replace(path, "/./", "/"), LAMBDA inner :
        IF StartsWith(inner, "./") THEN SubSeq(inner, 3, Len(inner)) ELSE inner)

\* s.split('/')
RECURSIVE Split(_)
Split(s) ==
    With(Find(s, "/", 1), LAMBDA i :
        IF i = 0 THEN <<s>>
        ELSE <<SubSeq(s, 1, i - 1)>> \o Split(SubSeq(s, i + 1, Len(s))))

\* The path the operating system resolves a relative path to, relative to the
\* store's work root: '.' and empty components are dropped, the root is '.'
OsSegments(s) == SelectSeq(Split(s), LAMBDA seg : seg # "" /\ seg # ".")

RECURSIVE JoinSegments(_)
JoinSegments(segs) ==
    IF segs = <<>> THEN "."
    ELSE IF Len(segs) = 1 THEN segs[1]
    ELSE segs[1] \o "/" \o JoinSegments(Tail(segs))

OsResolve(path) == JoinSegments(OsSegments(path))

\* the parent directory of a resolved path
OsParent(p) == DirnameOrDot(p)

\* the directories above a resolved path, the root '.' included
RECURSIVE OsAncestors(_)
OsAncestors(p) ==
    IF p = "." THEN {}
    ELSE With(OsParent(p), LAMBDA d : {d} \cup OsAncestors(d))

(***************************************************************************)
(* Finite maps.                                                            *)
(***************************************************************************)
Put(f, k, v) == IF k \in DOMAIN f THEN [f EXCEPT ![k] = v] ELSE (k :> v) @@ f
Drop(f, k) == [y \in (DOMAIN f) \ {k} |-> f[y]]
EmptyMap == <<>>

\* Python's None and a present value
None == <<>>
Some(v) == <<v>>

(***************************************************************************)
(* The store: one record S holding the file system object's state and the  *)
(* stats adapter's cache.                                                  *)
(*   cls     the FileSystem class of the store                             *)
(*   disk    working tree: resolved file path -> parsed YAML content       *)
(*   dirs    directories that exist in the working tree ('.' = work root)  *)
(*   fcache  CachedFileSystemMixin._files_cache                            *)
(*   dcache  CachedFileSystemMixin._dirs_cache                             *)
(*   scache  CachedStatsFSAdapterMixin._cache                              *)
(*   err     the exception that ended the run ("" = none)                  *)
(*   g       the log of the current update call                            *)
(*   index   GitIndexStatsFileSystem: the writes not yet in the working    *)
(*           tree (see EmptyIndex)                                         *)
(* GitIndexStatsFileSystem stages deferred writes in the index and checks  *)
(* the index out before every read, listing and removal. The adapter and   *)
(* the updater reach the store through FsAddFile, FsRead, FsLsFiles and    *)
(* FsRm, where disk is the working tree with the staged writes applied and *)
(* index stays empty; the calls made on the store object itself (add_file, *)
(* read, ls_files, ls_dirs, rm, rmdir, commit below) keep the staged       *)
(* writes in index until the next _sync_working_tree.                      *)
(***************************************************************************)
FsClasses == {"FileSystem", "GitCachedStatsFileSystem"}

IsCached(cls) == cls \in {"GitCachedStatsFileSystem", "GitCachedIndexStatsFileSystem"}
IsGit(cls) == cls # "FileSystem"
IsIndex(cls) == cls \in {"GitIndexStatsFileSystem", "GitCachedIndexStatsFileSystem"}

\* GitIndexStatsFileSystem.__init__:
\*   deferred  self._deferred_entries, path -> data (a later entry of a path
\*             replaces the earlier one when the index takes them)
\*   added     self._added_files
\*   ahead     the entries of the git index that were not checked out yet
\*   dirty     self._dirty
EmptyIndex == [deferred |-> EmptyMap, added |-> {}, ahead |-> EmptyMap, dirty |-> FALSE]

Raise(S, e) == IF S.err = "" THEN [S EXCEPT !.err = e] ELSE S

OsIsFile(S, p) == p \in DOMAIN S.disk
OsIsDir(S, p) == p \in S.dirs
OsExists(S, p) == OsIsFile(S, p) \/ OsIsDir(S, p)

\* scandir: the names of the entries (files and directories) of a directory
OsEntries(S, d) ==
    {Basename(p) : p \in {q \in ((DOMAIN S.disk) \cup S.dirs) \ {"."} : OsParent(q) = d}}

\* FileSystem.add_file: makedirs of the parent, then open(..., 'w')
FileSystemAddFile(S, path, data) ==
    With(OsResolve(NormalizePath(path)), LAMBDA p :
    With(OsAncestors(p), LAMBDA above :
        IF (\E a \in above : OsIsFile(S, a)) \/ OsIsDir(S, p)
        THEN Raise(S, "OSError")
        ELSE [S EXCEPT !.disk = Put(S.disk, p, data), !.dirs = S.dirs \cup above]))

\* FileSystem.read
FileSystemRead(S, path) ==
    With(OsResolve(path), LAMBDA p :
        IF OsIsFile(S, p) /\ \A a \in OsAncestors(p) : OsIsDir(S, a)
        THEN Some(S.disk[p]) ELSE None)

\* FileSystem.ls_files
FileSystemLsFiles(S, path) ==
    With(OsResolve(path), LAMBDA p : IF ~OsExists(S, p) THEN {} ELSE OsEntries(S, p))

\* FileSystem.ls_dirs: scandir raises when the directory does not exist
FileSystemLsDirsRaises(S, path) == ~OsIsDir(S, OsResolve(path))

FileSystemLsDirs(S, path) ==
    With(OsResolve(path), LAMBDA p :
        {Basename(q) : q \in {r \in S.dirs \ {"."} :
                                 OsParent(r) = p /\ ~StartsWith(Basename(r), ".")}})

\* FileSystem.rm
FileSystemRm(S, path) ==
    With(OsResolve(path), LAMBDA p :
        IF OsIsFile(S, p) THEN [S EXCEPT !.disk = Drop(S.disk, p)]
        ELSE IF OsIsDir(S, p) THEN Raise(S, "OSError")
        ELSE S)

\* FileSystem.rmdir: os.rmdir succeeds on an empty directory only, any OSError
\* is ignored
FileSystemRmdir(S, path) ==
    With(OsResolve(path), LAMBDA p :
        IF OsIsDir(S, p) /\ p # "." /\ OsEntries(S, p) = {}
        THEN [S EXCEPT !.dirs = S.dirs \ {p}]
        ELSE S)

\* os.path.join(*path) for a str path: the characters of the string are the
\* components. posixpath.join is associative, join(join(a, b), c) =
\* join(a, join(b, c)), so the components are joined in halves
RECURSIVE SplatJoin(_, _)
SplatJoin(acc, s) ==
    IF s = "" THEN acc
    ELSE IF Len(s) = 1 THEN Join(acc, s)
    ELSE With(Len(s) \div 2, LAMBDA half :
             Join(SplatJoin(acc, SubSeq(s, 1, half)),
                  SplatJoin("", SubSeq(s, half + 1, Len(s)))))

\* GitStatsFileSystem.rm: self._abs_file_path(*path) splats the path string.
\* A target that is absolute lies outside the work root and does not exist.
GitStatsFileSystemRm(S, path) ==
    With(SplatJoin("", path), LAMBDA target :
    With(OsResolve(target), LAMBDA p :
        IF ~StartsWith(target, "/") /\ OsIsFile(S, p)
        THEN [S EXCEPT !.disk = Drop(S.disk, p)]
        ELSE S))

\* CachedFileSystemMixin._update_cache_to_contain_file, the while loop
RECURSIVE DirsCacheContain(_, _)
DirsCacheContain(dcache, path) ==
    IF path = "" \/ path = "." THEN dcache
    ELSE With(DirnameOrDot(path), LAMBDA dirname :
             DirsCacheContain(
                 IF dirname \in DOMAIN dcache
                 THEN Put(dcache, dirname, dcache[dirname] \cup {Basename(path)})
                 ELSE dcache,
                 dirname))

\* CachedFileSystemMixin._update_cache_to_contain_file
UpdateCacheToContainFile(S, path0) ==
    With(NormalizePath(path0), LAMBDA path :
    With(DirnameOrDot(path), LAMBDA dirname :
        [S EXCEPT !.fcache = IF dirname \in DOMAIN S.fcache
                             THEN Put(S.fcache, dirname,
                                      S.fcache[dirname] \cup {Basename(path)})
                             ELSE S.fcache,
                  !.dcache = DirsCacheContain(S.dcache, path)]))

\* add_file of the store's class (GitStatsFileSystem.add_file defers to
\* FileSystem.add_file; CachedFileSystemMixin.add_file updates the caches after
\* the write)
FsAddFile(S, path, data) ==
    With(FileSystemAddFile(S, path, data), LAMBDA T :
        IF IsCached(S.cls) /\ T.err = "" THEN UpdateCacheToContainFile(T, path) ELSE T)

\* read of the store's class
FsRead(S, path) == FileSystemRead(S, path)

\* rm below the cache layer
BaseRm(S, path) ==
    IF IsGit(S.cls) THEN GitStatsFileSystemRm(S, path) ELSE FileSystemRm(S, path)

\* rm of the store's class (CachedFileSystemMixin.rm for the cached ones)
FsRm(S, path) ==
    IF IsCached(S.cls)
    THEN With(NormalizePath(path), LAMBDA p :
         With(DirnameOrDot(p), LAMBDA dirname :
             BaseRm(IF dirname \in DOMAIN S.fcache
                    THEN [S EXCEPT !.fcache = Put(S.fcache, dirname,
                                                  S.fcache[dirname] \ {Basename(p)})]
                    ELSE S,
                    p)))
    ELSE BaseRm(S, path)

\* rmdir of the store's class (CachedFileSystemMixin.rmdir for the cached ones:
\* dirname is not defaulted to '.', set.remove raises KeyError on a miss)
FsRmdir(S, path) ==
    IF IsCached(S.cls)
    THEN With(NormalizePath(path), LAMBDA p :
         With(Dirname(p), LAMBDA dirname :
             IF dirname \in DOMAIN S.dcache
             THEN IF Basename(p) \in S.dcache[dirname]
                  THEN FileSystemRmdir(
                           [S EXCEPT !.dcache = Put(S.dcache, dirname,
                                                    S.dcache[dirname] \ {Basename(p)})], p)
                  ELSE Raise(S, "KeyError")
             ELSE FileSystemRmdir(S, p)))
    ELSE FileSystemRmdir(S, path)

\* ls_files of the store's class: the names returned
FsLsFiles(S, path) ==
    IF IsCached(S.cls)
    THEN With(NormalizePath(path), LAMBDA p :
             IF p \in DOMAIN S.fcache THEN S.fcache[p] ELSE FileSystemLsFiles(S, p))
    ELSE FileSystemLsFiles(S, path)

\* ls_files of the store's class: the state after
FsLsFilesState(S, path) ==
    IF IsCached(S.cls)
    THEN With(NormalizePath(path), LAMBDA p :
             IF p \in DOMAIN S.fcache THEN S
             ELSE [S EXCEPT !.fcache = Put(S.fcache, p, FileSystemLsFiles(S, p))])
    ELSE S

\* ls_dirs of the store's class: the names returned
FsLsDirs(S, path) ==
    IF IsCached(S.cls)
    THEN With(NormalizePath(path), LAMBDA p :
             IF p \in DOMAIN S.dcache THEN S.dcache[p] ELSE FileSystemLsDirs(S, p))
    ELSE FileSystemLsDirs(S, path)

\* ls_dirs of the store's class: the state after
FsLsDirsState(S, path) ==
    IF IsCached(S.cls)
    THEN With(NormalizePath(path), LAMBDA p :
             IF p \in DOMAIN S.dcache THEN S
             ELSE IF FileSystemLsDirsRaises(S, p) THEN Raise(S, "OSError")
             ELSE [S EXCEPT !.dcache = Put(S.dcache, p, FileSystemLsDirs(S, p))])
    ELSE IF FileSystemLsDirsRaises(S, path) THEN Raise(S, "OSError") ELSE S


(***************************************************************************)
(* The calls on the store object itself, for every class of store.         *)
(***************************************************************************)
\* the entries of m that are not at one of the paths
Without(m, paths) == [p \in (DOMAIN m) \ paths |-> m[p]]

\* GitIndexStatsFileSystem._flush: repo.index.add(deferred entries + added
\* files). IndexFile.add takes the paths first, with the content of the
\* working tree, and the entries after them, so an entry replaces a path
_flush(S) ==
    [S EXCEPT !.index.ahead = S.index.deferred @@ Without(S.index.ahead, S.index.added),
              !.index.deferred = EmptyMap,
              !.index.added = {}]

\* repo.index.checkout(force=True): the working tree takes every entry of
\* the index
IndexCheckout(S) ==
    [S EXCEPT !.disk = S.index.ahead @@ S.disk,
              !.dirs = S.dirs \cup UNION {OsAncestors(p) : p \in DOMAIN S.index.ahead},
              !.index.ahead = EmptyMap]

\* GitIndexStatsFileSystem._sync_working_tree; the other classes have none
_sync_working_tree(S) ==
    IF IsIndex(S.cls) /\ S.index.dirty
    THEN [IndexCheckout(_flush(S)) EXCEPT !.index.dirty = FALSE]
    ELSE S

\* GitIndexStatsFileSystem.add_file below the cache layer: a deferred write
\* goes to a blob and an index entry at os.path.join(*path), any other write
\* to the working tree and to self._added_files
GitIndexStatsFileSystemAddFile(S, path, data, deferred) ==
    IF deferred
    THEN [S EXCEPT !.index.deferred = Put(S.index.deferred, OsResolve(path), data),
                   !.index.dirty = TRUE]
    ELSE With(FileSystemAddFile(S, path, data), LAMBDA T :
             IF T.err # "" THEN T
             ELSE [T EXCEPT !.index.added = @ \cup {OsResolve(NormalizePath(path))},
                            !.index.dirty = TRUE])

\* add_file(*path, deferred=...) of the store's class: FileSystem.add_file
\* takes no keyword, GitStatsFileSystem.add_file drops it,
\* CachedFileSystemMixin.add_file updates the caches after the write
add_file(S, path, data, deferred) ==
    With(IF IsIndex(S.cls) THEN GitIndexStatsFileSystemAddFile(S, path, data, deferred)
         ELSE IF deferred /\ ~IsGit(S.cls) THEN Raise(S, "TypeError")
         ELSE FileSystemAddFile(S, path, data), LAMBDA T :
        IF IsCached(S.cls) /\ T.err = "" THEN UpdateCacheToContainFile(T, path) ELSE T)

\* read(*path) of the store's class: the state after, and the value returned
read(S, path) ==
    With(_sync_working_tree(S), LAMBDA T : [S |-> T, value |-> FileSystemRead(T, path)])

\* ls_files(path) of the store's class: CachedFileSystemMixin.ls_files
\* answers from its cache, GitIndexStatsFileSystem.ls_files syncs first
ls_files(S, path) ==
    IF IsCached(S.cls) /\ NormalizePath(path) \in DOMAIN S.fcache
    THEN [S |-> S, value |-> S.fcache[NormalizePath(path)]]
    ELSE With(_sync_working_tree(S), LAMBDA T :
             [S |-> FsLsFilesState(T, path), value |-> FsLsFiles(T, path)])

\* ls_dirs(path) of the store's class; scandir raises on a missing directory
ls_dirs(S, path) ==
    IF IsCached(S.cls) /\ NormalizePath(path) \in DOMAIN S.dcache
    THEN [S |-> S, value |-> S.dcache[NormalizePath(path)]]
    ELSE With(_sync_working_tree(S), LAMBDA T :
             [S |-> FsLsDirsState(T, path),
              value |-> IF FileSystemLsDirsRaises(T, IF IsCached(S.cls)
                                                     THEN NormalizePath(path) ELSE path)
                        THEN {} ELSE FsLsDirs(T, path)])

\* rm(path) of the store's class: CachedFileSystemMixin.rm, then
\* GitIndexStatsFileSystem.rm (sync) and GitStatsFileSystem.rm
rm(S, path) == FsRm(_sync_working_tree(S), path)

\* rmdir(path) of the store's class; no class syncs before it
rmdir(S, path) == FsRmdir(S, path)
(***************************************************************************)
(* Stat vectors (pandas Series indexed by (category, metric)) and their    *)
(* YAML form (category -> metric -> value).                                *)
(***************************************************************************)
\* the value pandas gives a key that one operand of '+' lacks
NaN == -1

\* Series.add(other, fill_value=0): key union, a missing key counts as 0
SeriesAdd(a, b) ==
    [k \in (DOMAIN a) \cup (DOMAIN b) |->
        (IF k \in DOMAIN a THEN a[k] ELSE 0) + (IF k \in DOMAIN b THEN b[k] ELSE 0)]

\* a + b: the index is the key union, a key missing on one side gives NaN
SeriesPlus(a, b) ==
    [k \in (DOMAIN a) \cup (DOMAIN b) |->
        IF k \in DOMAIN a /\ k \in DOMAIN b /\ a[k] # NaN /\ b[k] # NaN
        THEN a[k] + b[k] ELSE NaN]

\* zero_series
zero_series(series) == [k \in DOMAIN series |-> 0]

\* series_to_dict
series_to_dict(series) ==
    [c \in {k[1] : k \in DOMAIN series} |->
        [m \in {k[2] : k \in {j \in DOMAIN series : j[1] = c}} |-> series[<<c, m>>]]]

\* dict_to_series
dict_to_series(dct) ==
    [k \in UNION {{<<c, m>> : m \in DOMAIN dct[c]} : c \in DOMAIN dct} |-> dct[k[1]][k[2]]]

\* sum(list) of Series, for a list that is not empty
RECURSIVE SumSeries(_)
SumSeries(list) ==
    IF Len(list) = 1 THEN list[1]
    ELSE SeriesPlus(SumSeries(SubSeq(list, 1, Len(list) - 1)), list[Len(list)])

\* a set as a sequence, in an order fixed by the set
RECURSIVE SetToSeq(_)
SetToSeq(set) ==
    IF set = {} THEN <<>>
    ELSE With(CHOOSE y \in set : TRUE, LAMBDA e : <<e>> \o SetToSeq(set \ {e}))

(***************************************************************************)
(* The analyzer (radon behind _analyze_file). A source file's content is a *)
(* number: 0 is text that does not parse (AnalysisFailed), n > 0 is a      *)
(* module of n logical lines in one function.                              *)
(***************************************************************************)
Unparseable == 0

\* _analyze_file: None on AnalysisFailed, else the result dict without
\* its 'methods' entry
_analyze_file(content) ==
    IF content = Unparseable THEN None
    ELSE Some(("complexity" :> ("total" :> 1)) @@ ("stats" :> ("lloc" :> content)))

\* result_dict.pop('methods'), sorted by name
AnalyzeMethods(content) == << <<"foo", "A", content>> >>

(***************************************************************************)
(* StatsFSAdapter with CachedStatsFSAdapterMixin.                          *)
(***************************************************************************)
\* StatsFSAdapter.get: the series read from the file system, None if no file
StatsFSAdapterGet(S, path) ==
    With(FsRead(S, path \o ".stats.yaml"), LAMBDA data :
        IF data # None THEN Some(dict_to_series(data[1])) ELSE None)

\* CachedStatsFSAdapterMixin.get: the value returned and the state after
AdapterGet(S, path0) ==
    With(NormalizePath(path0), LAMBDA path :
        IF path \in DOMAIN S.scache THEN [S |-> S, value |-> S.scache[path]]
        ELSE With(StatsFSAdapterGet(S, path), LAMBDA series :
                 [S |-> [S EXCEPT !.scache = Put(S.scache, path, series)],
                  value |-> series]))

\* a set that leaves the cached vector of a path that has one
AdapterSetKeepingCache(S, path0, series) ==
    With(NormalizePath(path0), LAMBDA path :
        FsAddFile(IF path \in DOMAIN S.scache THEN S
                  ELSE [S EXCEPT !.scache = Put(S.scache, path, Some(series))],
                  path \o ".stats.yaml", series_to_dict(series)))

\* CachedStatsFSAdapterMixin.set
AdapterSet(S, path0, series) ==
    With(NormalizePath(path0), LAMBDA path :
        FsAddFile([S EXCEPT !.scache = Put(S.scache, path, Some(series))],
                  path \o ".stats.yaml", series_to_dict(series)))

\* CachedStatsFSAdapterMixin.rm: the cache key is the path as given
AdapterRm(S, path) ==
    FsRm([S EXCEPT !.scache = Put(S.scache, path, None)], path \o ".stats.yaml")

\* StatsFSAdapter.ls
AdapterLs(S, path) ==
    {Replace(f, ".stats.yaml", "") :
        f \in {g \in FsLsFiles(S, path) : EndsWith(g, ".stats.yaml")}}

(***************************************************************************)
(* The source tree the updater reads: src.files maps a file path to its    *)
(* content, src.dirs is the set of directories ('.' is the source root).   *)
(***************************************************************************)
\* StatsUpdater._source_exists
_source_exists(src, dir_path, f) ==
    With(OsResolve(Join(dir_path, f)), LAMBDA p :
        p \in DOMAIN src.files \/ p \in src.dirs)

\* scandir of a source directory: the entry names
SourceEntries(src, d) ==
    {Basename(p) : p \in {q \in ((DOMAIN src.files) \cup src.dirs) \ {"."} : OsParent(q) = d}}

\* the names scandirs_depth_first descends into
SubdirNames(src, root) ==
    SetToSeq({n \in SourceEntries(src, root) :
                 OsResolve(Join(root, n)) \in src.dirs /\ ~StartsWith(n, ".")})

\* scandirs_depth_first: the directories below root, none starting with '.',
\* every directory after the directories below it
RECURSIVE scandirs_depth_first(_, _)
RECURSIVE ScanNames(_, _, _)
scandirs_depth_first(src, root) == ScanNames(src, root, SubdirNames(src, root))

ScanNames(src, root, names) ==
    IF names = <<>> THEN <<>>
    ELSE With(scandirs_depth_first(src, OsResolve(Join(root, names[1]))), LAMBDA sub :
             [j \in 1..Len(sub) |-> Join(names[1], sub[j])]
             \o <<names[1]>> \o ScanNames(src, root, Tail(names)))

(***************************************************************************)
(* StatsUpdater. The run log S.g records what one update call did.         *)
(***************************************************************************)
\* re.search over the configured test patterns r'^tests?_.*.\py$' and
\* r'_tests?\.py$'
IsTest(basename) ==
    \/ /\ StartsWith(basename, "test_") \/ StartsWith(basename, "tests_")
       /\ EndsWith(basename, "py")
       /\ Len(basename) >= (IF StartsWith(basename, "test_") THEN 5 ELSE 6) + 3
    \/ EndsWith(basename, "_test.py")
    \/ EndsWith(basename, "_tests.py")

EmptyLog == [stored |-> {}, failed |-> {}, removed |-> {}, visited |-> {},
             order |-> <<>>]

\* StatsUpdater._py_stats_files
_py_stats_files(S, path) == {f \in AdapterLs(S, path) : EndsWith(f, ".py")}

\* StatsUpdater._py_method_files
_py_method_files(S, path) == {f \in FsLsFiles(S, path) : EndsWith(f, ".py")}

\* StatsUpdater._non_py_stats_files
_non_py_stats_files(S, path) == {f \in AdapterLs(S, path) : ~EndsWith(f, ".py")}

\* _visit_files_in_dir, lines 242-247: store the record and the method list of
\* an analyzed file
StoreAnalyzed(S, path, content, result_dict) ==
    With(AdapterSet(S, path, dict_to_series(result_dict[1])), LAMBDA T :
    With(IF T.err = ""
         THEN FsAddFile(T, path \o ".methods.yaml", AnalyzeMethods(content))
         ELSE T, LAMBDA U :
        [U EXCEPT !.g.stored = @ \cup {path}]))

\* StoreResult with a failed analysis taken as 'the file has no stats any
\* more': the record of the path is removed
StoreResultDroppingFailed(S, path, content) ==
    With(_analyze_file(content), LAMBDA result_dict :
        IF result_dict # None THEN StoreAnalyzed(S, path, content, result_dict)
        ELSE [AdapterRm(S, path) EXCEPT !.g.failed = @ \cup {path}])

\* _visit_files_in_dir, lines 240-247: the loop body for one file; a file
\* whose analysis failed (result_dict is None) is skipped
StoreResult(S, path, content) ==
    With(_analyze_file(content), LAMBDA result_dict :
        IF result_dict # None THEN StoreAnalyzed(S, path, content, result_dict)
        ELSE [S EXCEPT !.g.failed = @ \cup {path}])

\* _visit_files_in_dir, lines 235-247
RECURSIVE StoreResults(_, _, _, _)
StoreResults(S, src, dir_path, files) ==
    IF files = {} \/ S.err # "" THEN S
    ELSE With(CHOOSE f \in files : TRUE, LAMBDA file_name :
         With(Join(dir_path, file_name), LAMBDA path :
             StoreResults(StoreResult(S, path, src.files[OsResolve(path)]),
                          src, dir_path, files \ {file_name})))

\* _visit_files_in_dir, lines 257-258
RECURSIVE RemoveStale(_, _, _)
RemoveStale(S, dir_path, stale) ==
    IF stale = {} \/ S.err # "" THEN S
    ELSE With(CHOOSE f \in stale : TRUE, LAMBDA stale_file :
         With(Join(dir_path, stale_file), LAMBDA path :
         With(AdapterRm(S, path), LAMBDA T :
             RemoveStale([T EXCEPT !.g.removed = @ \cup {path}],
                         dir_path, stale \ {stale_file}))))

\* re.search(pat, path) for a pattern without metacharacters
Search(pat, path) == Find(path, pat, 1) # 0

\* the filter without its ignore_patterns clause
FilesToAnalyzeIgnoringNothing(src, dir_path, changed_files, paths, ignore_patterns) ==
    {f \in IF changed_files = None THEN SourceEntries(src, OsResolve(dir_path))
           ELSE {g \in changed_files[1] : _source_exists(src, dir_path, g)} :
        /\ EndsWith(f, ".py")
        /\ paths = None \/ ~\E p \in paths[1] : StartsWith(Join(dir_path, f), p)
        /\ OsResolve(Join(dir_path, f)) \in DOMAIN src.files}

\* _visit_files_in_dir, lines 216-226: the files analyzed; changed_files = None
\* is a full rescan, Some(set of base names) an incremental visit; paths is
\* None or Some(set of paths), ignore_patterns a set of patterns
FilesToAnalyze(src, dir_path, changed_files, paths, ignore_patterns) ==
    {f \in IF changed_files = None THEN SourceEntries(src, OsResolve(dir_path))
           ELSE {g \in changed_files[1] : _source_exists(src, dir_path, g)} :
        /\ EndsWith(f, ".py")
        /\ paths = None \/ ~\E p \in paths[1] : StartsWith(Join(dir_path, f), p)
        /\ ~\E pat \in ignore_patterns : Search(pat, Join(dir_path, f))
        /\ OsResolve(Join(dir_path, f)) \in DOMAIN src.files}

\* the stale stats files when the changed files are not consulted
StaleStatsFilesOfWholeDir(S, src, dir_path, changed_files) ==
    {f \in _py_stats_files(S, dir_path) \cup _py_method_files(S, dir_path) :
        ~_source_exists(src, dir_path, f)}

\* _visit_files_in_dir, lines 250-253: the stale stats files, listed after the
\* results are stored
StaleStatsFiles(S, src, dir_path, changed_files) ==
    {f \in _py_stats_files(S, dir_path) \cup _py_method_files(S, dir_path) :
        /\ IF changed_files = None THEN TRUE ELSE f \in changed_files[1]
        /\ ~_source_exists(src, dir_path, f)}

\* StatsUpdater._visit_files_in_dir: the state after, and the value returned
\* (has_changes or stale_stats_files)
_visit_files_in_dir(S, src, dir_path, changed_files, paths, ignore_patterns) ==
    With(StoreResults(S, src, dir_path,
                      FilesToAnalyze(src, dir_path, changed_files, paths, ignore_patterns)),
         LAMBDA T :
    With(StaleStatsFiles(T, src, dir_path, changed_files), LAMBDA stale_stats_files :
        [S |-> RemoveStale(FsLsFilesState(T, dir_path), dir_path, stale_stats_files),
         has_changes |-> T.g.stored # S.g.stored \/ stale_stats_files # {}]))

TotalNames == <<"TOTAL", "TOTAL_TEST", "TOTAL_NON_TEST">>

\* _aggregate_dir, lines 268-281 for one record: totals is None until the first
AddToTotals(totals, series, is_test) ==
    With(IF totals = None
         THEN [n \in {"TOTAL", "TOTAL_TEST", "TOTAL_NON_TEST"} |-> zero_series(series)]
         ELSE totals[1], LAMBDA zero :
        [n \in {"TOTAL", "TOTAL_TEST", "TOTAL_NON_TEST"} |->
            IF \/ n = "TOTAL"
               \/ n = "TOTAL_TEST" /\ is_test
               \/ n = "TOTAL_NON_TEST" /\ ~is_test
            THEN SeriesAdd(zero[n], series) ELSE zero[n]])

\* _aggregate_dir, lines 266-281: a record that is listed but cannot be loaded
\* makes zero_series(None) raise
RECURSIVE SumDir(_, _, _, _)
SumDir(S, dir_path, files, totals) ==
    IF files = {} \/ S.err # "" THEN [S |-> S, totals |-> totals]
    ELSE With(CHOOSE f \in files : TRUE, LAMBDA stats_file :
         With(AdapterGet(S, Join(dir_path, stats_file)), LAMBDA loaded :
             IF loaded.value = None
             THEN [S |-> Raise(loaded.S, "AttributeError"), totals |-> totals]
             ELSE SumDir(loaded.S, dir_path, files \ {stats_file},
                         Some(AddToTotals(totals, loaded.value[1], IsTest(stats_file))))))

\* _aggregate_dir, lines 283-289
RECURSIVE StoreTotals(_, _, _, _)
StoreTotals(S, dir_path, totals, i) ==
    IF i > Len(TotalNames) \/ S.err # "" THEN S
    ELSE StoreTotals(IF totals = None
                     THEN AdapterRm(S, Join(dir_path, TotalNames[i]))
                     ELSE AdapterSet(S, Join(dir_path, TotalNames[i]),
                                     totals[1][TotalNames[i]]),
                     dir_path, totals, i + 1)

\* StatsUpdater._aggregate_dir
_aggregate_dir(S, dir_path) ==
    With(SumDir(FsLsFilesState(S, dir_path), dir_path, _py_stats_files(S, dir_path), None),
         LAMBDA summed : StoreTotals(summed.S, dir_path, summed.totals, 1))

\* _aggregate_subtree, lines 302-306: load the subtotals of the subdirectories,
\* then the directory's own total; acc collects the stats loaded and the
\* subdirectories they came from ("" stands for the directory itself)
RECURSIVE LoadSubtotals(_, _, _)
LoadSubtotals(S, paths, acc) ==
    IF paths = <<>> \/ S.err # "" THEN [S |-> S, stats |-> acc.stats, found |-> acc.found]
    ELSE With(AdapterGet(S, paths[1].path), LAMBDA loaded :
             LoadSubtotals(loaded.S, Tail(paths),
                 IF loaded.value # None
                 THEN [stats |-> Append(acc.stats, loaded.value[1]),
                       found |-> acc.found \cup {paths[1].sub}]
                 ELSE acc))

\* _aggregate_subtree, lines 298-300
SubtotalPaths(dir_path, subdirs, name) ==
    [j \in 1..Len(subdirs) |->
        [path |-> Join(Join(dir_path, subdirs[j]), "SUBTREE_" \o name),
         sub |-> subdirs[j]]]
    \o <<[path |-> Join(dir_path, name), sub |-> ""]>>

\* _aggregate_subtree, lines 308-313: sum(subtotal_stats) of an empty list is
\* the int 0
StoreSubtreeTotal(loaded, dir_path, subtree_name, existing_totals) ==
    IF loaded.S.err # "" THEN loaded.S
    ELSE IF loaded.stats = <<>>
    THEN IF subtree_name \in existing_totals
         THEN AdapterRm(loaded.S, Join(dir_path, subtree_name))
         ELSE loaded.S
    ELSE AdapterSet(loaded.S, Join(dir_path, subtree_name), SumSeries(loaded.stats))

\* _aggregate_subtree, lines 296-313
RECURSIVE SubtreeTotals(_, _, _, _, _, _)
SubtreeTotals(S, dir_path, subdirs, existing_totals, found, i) ==
    IF i > Len(TotalNames) \/ S.err # "" THEN [S |-> S, found |-> found]
    ELSE With(LoadSubtotals(S, SubtotalPaths(dir_path, subdirs, TotalNames[i]),
                            [stats |-> <<>>, found |-> {}]), LAMBDA loaded :
             SubtreeTotals(StoreSubtreeTotal(loaded, dir_path, "SUBTREE_" \o TotalNames[i],
                                             existing_totals),
                           dir_path, subdirs, existing_totals,
                           found \cup loaded.found, i + 1))

\* _aggregate_subtree, lines 316-319
RECURSIVE RemoveEmptySubdirs(_, _, _, _)
RemoveEmptySubdirs(S, dir_path, subdirs, found) ==
    IF subdirs = <<>> \/ S.err # "" THEN S
    ELSE RemoveEmptySubdirs(
             IF subdirs[1] \notin found THEN FsRmdir(S, Join(dir_path, subdirs[1])) ELSE S,
             dir_path, Tail(subdirs), found)

\* StatsUpdater._aggregate_subtree
_aggregate_subtree(S, dir_path) ==
    With(SetToSeq(FsLsDirs(S, dir_path)), LAMBDA subdirs :
    With(FsLsDirsState(S, dir_path), LAMBDA T :
        IF T.err # "" THEN T
        ELSE With(SubtreeTotals(FsLsFilesState(T, dir_path), dir_path, subdirs,
                                _non_py_stats_files(T, dir_path), {}, 1), LAMBDA totals :
                 RemoveEmptySubdirs(totals.S, dir_path, subdirs, totals.found))))

\* the order of Python str values by code point, for the characters of paths
CodePointOrder == "-./0123456789ABCDEFGHIJKLMNOPQRSTUVWXYZ_abcdefghijklmnopqrstuvwxyz"

\* ord(c), up to the order
Ord(c) == Find(CodePointOrder, c, 1)

\* a < b for Python str
RECURSIVE StrLess(_, _)
StrLess(a, b) ==
    IF b = "" THEN FALSE
    ELSE IF a = "" THEN TRUE
    ELSE IF Char(a, 1) = Char(b, 1) THEN StrLess(SubSeq(a, 2, Len(a)), SubSeq(b, 2, Len(b)))
    ELSE Ord(Char(a, 1)) < Ord(Char(b, 1))

\* (-len(a), a) < (-len(b), b): the order of the heap entries
HeapLess(a, b) == Len(a) > Len(b) \/ (Len(a) = Len(b) /\ StrLess(a, b))

\* heapq.heappop: the least entry of the heap
HeapMin(heap) == CHOOSE m \in heap : \A o \in heap \ {m} : HeapLess(m, o)

\* _aggregate_subtrees, the while loop: equal entries of the heap are one
\* element of the set, a popped path that is finished is skipped
RECURSIVE AggregateLoop(_, _, _)
AggregateLoop(S, heap, finished_paths) ==
    IF heap = {} \/ S.err # "" THEN [S |-> S, finished |-> finished_paths]
    ELSE With(HeapMin(heap), LAMBDA dir_path :
             IF dir_path \in finished_paths
             THEN AggregateLoop(S, heap \ {dir_path}, finished_paths)
             ELSE With(_aggregate_subtree(S, dir_path), LAMBDA T :
                      AggregateLoop([T EXCEPT !.g.order = Append(@, dir_path)],
                                    (heap \ {dir_path}) \cup {DirnameOrDot(dir_path)},
                                    finished_paths \cup {dir_path})))

\* StatsUpdater._aggregate_subtrees
_aggregate_subtrees(S, dir_paths) == AggregateLoop(S, dir_paths, {})

\* _generate_dirs_and_files, lines 358-362: the changed files by directory
FilesByDir(changed, dir_names) ==
    [j \in 1..Len(dir_names) |->
        [dir |-> dir_names[j],
         files |-> Some({Basename(f) : f \in {h \in changed : DirnameOrDot(h) = dir_names[j]}})]]

\* StatsUpdater._generate_dirs_and_files: the (dir_name, files) pairs
_generate_dirs_and_files(src, changed_files) ==
    IF changed_files = None
    THEN With(scandirs_depth_first(src, "."), LAMBDA dir_names :
             [j \in 1..Len(dir_names) |-> [dir |-> dir_names[j], files |-> None]]
             \o <<[dir |-> ".", files |-> None]>>)
    ELSE FilesByDir(changed_files[1], SetToSeq({DirnameOrDot(f) : f \in changed_files[1]}))

\* update, lines 202-208
RECURSIVE VisitAll(_, _, _, _, _, _)
VisitAll(S, src, worklist, dirty_dirs, paths, ignore_patterns) ==
    IF worklist = <<>> \/ S.err # "" THEN [S |-> S, dirty |-> dirty_dirs]
    ELSE With(_visit_files_in_dir(S, src, worklist[1].dir, worklist[1].files, paths,
                                  ignore_patterns), LAMBDA visit :
         With([visit.S EXCEPT !.g.visited = @ \cup {worklist[1].dir}], LAMBDA U :
             IF visit.has_changes /\ U.err = ""
             THEN VisitAll(_aggregate_dir(U, worklist[1].dir), src, Tail(worklist),
                           dirty_dirs \cup {worklist[1].dir}, paths, ignore_patterns)
             ELSE VisitAll(U, src, Tail(worklist), dirty_dirs, paths, ignore_patterns)))

\* update, lines 210-213
UpdateSubtrees(visited) ==
    IF visited.dirty # {} /\ visited.S.err = ""
    THEN With(_aggregate_subtrees(visited.S, visited.dirty), LAMBDA agg :
             [S |-> agg.S, dirty_dirs |-> visited.dirty \cup agg.finished])
    ELSE [S |-> visited.S, dirty_dirs |-> visited.dirty]

\* StatsUpdater.update(changed_files, paths, ignore_patterns): the store after,
\* and the set of directories returned
UpdateWith(S, src, changed_files, paths, ignore_patterns) ==
    UpdateSubtrees(VisitAll([S EXCEPT !.g = EmptyLog], src,
                            _generate_dirs_and_files(src, changed_files), {},
                            paths, ignore_patterns))

\* StatsUpdater.update(changed_files), with paths=None and ignore_patterns=()
update(S, src, changed_files) == UpdateWith(S, src, changed_files, None, {})
(***************************************************************************)
(* State.                                                                  *)
(*   srcFiles, srcDirs   the source tree the updater reads                 *)
(*   fsClass             the class of the store (dest_fs)                  *)
(*   disk, diskDirs      the store's working tree                          *)
(*   filesCache, dirsCache   the store object's listing caches             *)
(*   statsCache          the stats adapter's cache (one per StatsUpdater)  *)
(*   gitIndex            what GitIndexStatsFileSystem holds back from the  *)
(*                       working tree (see EmptyIndex)                     *)
(*   err                 the exception that ended the last call, "" if none*)
(*   runLog              what the update call that led here did            *)
(*   last                the operation that led here: its kind, and for an *)
(*                       update its changed set and the set it returned    *)
(*   nOps                operations so far                                 *)
(*   commits             the source repository's history, oldest first     *)
(*   snapshots           the store repository's history, oldest first      *)
(*   replay              where the range replay of core.py stands          *)
(***************************************************************************)
VARIABLES srcFiles, srcDirs, fsClass, disk, diskDirs, filesCache, dirsCache,
          statsCache, gitIndex, err, runLog, last, nOps, commits, snapshots, replay

vars == <<srcFiles, srcDirs, fsClass, disk, diskDirs, filesCache, dirsCache,
          statsCache, gitIndex, err, runLog, last, nOps, commits, snapshots, replay>>

\* the source files and contents the model draws from
SourceFiles == {"f.py", "test_f.py", "a/g.py", "a/b/h.py"}
Contents == {Unparseable, 1, 2}

Src == [files |-> srcFiles, dirs |-> srcDirs]

Store == [cls |-> fsClass, disk |-> disk, dirs |-> diskDirs, fcache |-> filesCache,
          dcache |-> dirsCache, scache |-> statsCache, index |-> gitIndex, err |-> err,
          g |-> runLog]

SetStore(S) ==
    /\ disk' = S.disk
    /\ diskDirs' = S.dirs
    /\ filesCache' = S.fcache
    /\ dirsCache' = S.dcache
    /\ statsCache' = S.scache
    /\ gitIndex' = S.index
    /\ err' = S.err
    /\ runLog' = S.g

Op(kind) == [kind |-> kind, changed |-> None, dirty |-> {}]

\* no replay is running
NoReplay == [pc |-> "none", incremental |-> FALSE, next |-> 0]

\* a store that was just created
FreshStore(cls) ==
    [cls |-> cls, disk |-> EmptyMap, dirs |-> IF IsGit(cls) THEN {".", ".git"} ELSE {},
     fcache |-> EmptyMap, dcache |-> EmptyMap, scache |-> EmptyMap, index |-> EmptyIndex,
     err |-> "",
     g |-> EmptyLog]

\* the store variables are those of a store that was just created
StoreIsFresh ==
    /\ disk = EmptyMap
    /\ diskDirs = FreshStore(fsClass).dirs
    /\ filesCache = EmptyMap
    /\ dirsCache = EmptyMap
    /\ statsCache = EmptyMap
    /\ gitIndex = EmptyIndex
    /\ err = ""
    /\ runLog = EmptyLog

\* the source trees the updater may find when it is constructed
InitialTrees ==
    {[f \in present |-> 1] :
        present \in {c \in SUBSET SourceFiles : Cardinality(c) <= MaxInitial}}

\* the directories of a tree of files
TreeDirs(files) == {"."} \cup UNION {OsAncestors(f) : f \in DOMAIN files}

\* FileSystem(path) on a path that does not exist yet; a git store is an
\* initialised repository (GitStatsFileSystem.__init__)
Init ==
    /\ srcFiles \in InitialTrees
    /\ srcDirs = TreeDirs(srcFiles)
    /\ fsClass \in FsClasses
    /\ StoreIsFresh
    /\ last = Op("init")
    /\ nOps = 0
    /\ commits = <<>>
    /\ snapshots = <<>>
    /\ replay = NoReplay

\* one more operation, none after an exception
Step ==
    /\ nOps < MaxOps
    /\ err = ""
    /\ nOps' = nOps + 1
    /\ UNCHANGED <<commits, snapshots, replay>>

\* an operation on the source tree
SourceStep ==
    /\ Step
    /\ last' = Op("source")
    /\ runLog' = EmptyLog
    /\ UNCHANGED <<fsClass, disk, diskDirs, filesCache, dirsCache, statsCache, gitIndex,
                   err>>

\* the source tree changes: a file is created or rewritten
WriteSource ==
    \E f \in SourceFiles, c \in Contents :
        /\ IF f \in DOMAIN srcFiles THEN srcFiles[f] # c ELSE TRUE
        /\ SourceStep
        /\ srcFiles' = Put(srcFiles, f, c)
        /\ srcDirs' = srcDirs \cup OsAncestors(f)

\* the source tree changes: a file is deleted, its directory stays
DeleteSource ==
    \E f \in DOMAIN srcFiles :
        /\ SourceStep
        /\ srcFiles' = Drop(srcFiles, f)
        /\ UNCHANGED srcDirs

\* the source tree changes: a directory is deleted with everything below it
RemoveSourceDir ==
    \E d \in srcDirs \ {"."} :
        /\ SourceStep
        /\ srcFiles' = [f \in {g \in DOMAIN srcFiles : d \notin OsAncestors(g)} |->
                           srcFiles[f]]
        /\ srcDirs' = {e \in srcDirs : e # d /\ d \notin OsAncestors(e)}

\* the update call's result becomes the state
Updated(r, kind, changed_files) ==
    /\ SetStore(r.S)
    /\ last' = [kind |-> kind, changed |-> changed_files, dirty |-> r.dirty_dirs]
    /\ UNCHANGED <<srcFiles, srcDirs, fsClass>>

\* StatsUpdater.update(None)
UpdateAll ==
    /\ Step
    /\ Updated(update(Store, Src, None), "full", None)

\* StatsUpdater.update(changed_files)
UpdateChanged ==
    \E changed \in {c \in SUBSET SourceFiles : Cardinality(c) <= MaxChanged} :
        /\ Step
        /\ Updated(update(Store, Src, Some(changed)), "incremental", Some(changed))

\* a new StatsUpdater over the same store: a new adapter with an empty cache
NewUpdater ==
    /\ statsCache # EmptyMap
    /\ Step
    /\ statsCache' = EmptyMap
    /\ last' = Op("updater")
    /\ runLog' = EmptyLog
    /\ UNCHANGED <<srcFiles, srcDirs, fsClass, disk, diskDirs, filesCache, dirsCache,
                   gitIndex, err>>

Next ==
    \/ WriteSource
    \/ DeleteSource
    \/ RemoveSourceDir
    \/ UpdateAll
    \/ UpdateChanged
    \/ NewUpdater

Spec == Init /\ [][Next]_vars

NoError == err = ""

(***************************************************************************)
(* Range replay (core.py). A source commit is a record                     *)
(*   [id, message, author, committer, tree]                                *)
(* with tree the files of the revision (path -> content); the history is   *)
(* linear. A store commit is a record                                      *)
(*   [message, author, committer, tree, of]                                *)
(* with of the position of the source commit it was yielded for, 0 for a   *)
(* commit that is not yielded (baseline, catch-up).                        *)
(***************************************************************************)
MaxCommits == 2

\* the store classes a replay can run on
GitClasses == {"GitCachedStatsFileSystem", "GitCachedIndexStatsFileSystem"}

\* the files, the commit ids and the commit metadata the model draws from
ReplayFiles == {"f.py", "a/g.py"}
CommitIds == <<"c1", "c2", "c3", "c4">>
CommitMetas ==
    {[message |-> "Fix f\n", author |-> "alice", committer |-> "alice"],
     [message |-> "Merge branch x", author |-> "alice", committer |-> "bob"]}

\* the identity the store repository commits under when none is passed
StoreUser == "gradon"

IsSpace(c) == c \in {" ", "\t", "\n"}

\* s.split('\n')
RECURSIVE SplitLines(_)
SplitLines(s) ==
    With(Find(s, "\n", 1), LAMBDA i :
        IF i = 0 THEN <<s>>
        ELSE <<SubSeq(s, 1, i - 1)>> \o SplitLines(SubSeq(s, i + 1, Len(s))))

\* a line without its trailing whitespace
RECURSIVE RStripSpace(_)
RStripSpace(s) ==
    IF Len(s) > 0 /\ IsSpace(Char(s, Len(s)))
    THEN RStripSpace(SubSeq(s, 1, Len(s) - 1))
    ELSE s

\* git's clean-up of the lines of a message: blank is TRUE when a blank line
\* is waiting to be written before the next line that is not blank
RECURSIVE StripSpace(_, _, _)
StripSpace(lines, out, blank) ==
    IF lines = <<>> THEN out
    ELSE With(RStripSpace(Head(lines)), LAMBDA line :
             IF line = "" THEN StripSpace(Tail(lines), out, out # "")
             ELSE StripSpace(Tail(lines),
                             out \o (IF blank THEN "\n" ELSE "") \o line \o "\n", FALSE))

\* the message 'git commit --message=<message>' stores: trailing whitespace
\* is removed from every line, blank lines at the start and at the end are
\* dropped, runs of blank lines become one, the last line ends with '\n'
GitCleanup(message) == StripSpace(SplitLines(message), "", FALSE)

\* GitStatsFileSystem.commit: git add --all, then git commit --message
GitStatsFileSystemCommit(snaps, S, message, author, committer, of) ==
    Append(snaps, [message |-> GitCleanup(message), author |-> author,
                   committer |-> committer, tree |-> S.disk, of |-> of])

\* GitIndexStatsFileSystem.commit: _flush, then repo.index.commit(message)
GitIndexStatsFileSystemCommit(snaps, S, message, author, committer, of) ==
    Append(snaps, [message |-> message, author |-> author, committer |-> committer,
                   tree |-> _flush(S).index.ahead @@ S.disk, of |-> of])

\* commit of the store's class
FsCommit(snaps, S, message, author, committer, of) ==
    IF IsIndex(S.cls)
    THEN GitIndexStatsFileSystemCommit(snaps, S, message, author, committer, of)
    ELSE GitStatsFileSystemCommit(snaps, S, message, author, committer, of)

\* the hexsha of the commit at position k of the store's history
StoreShas == <<"2399597", "6c639ba", "ebdcffb", "0da08bc", "5d1e2f0", "a41c9e3">>

StoreSha(k) == StoreShas[k]

\* the first line of a message
Subject(message) == SplitLines(message)[1]

\* what 'git commit' prints for the commit at position k: the branch, the
\* abbreviated hexsha and the subject
GitCommitOutput(snaps, k) ==
    "[master " \o (IF k = 1 THEN "(root-commit) " ELSE "") \o StoreSha(k) \o "] "
    \o Subject(snaps[k].message)

\* 'git commit --message=' aborts on a message that is empty after clean-up
CommitAborts(S, message) == ~IsIndex(S.cls) /\ GitCleanup(message) = ""

\* commit(message) of the store's class: the store after, the history after
\* and the value returned. GitStatsFileSystem.commit returns what
\* repo.git.commit returns, the output of the command;
\* GitIndexStatsFileSystem.commit flushes and returns the hexsha
FsCommitCall(S, snaps, message) ==
    IF CommitAborts(S, message)
    THEN [S |-> Raise(S, "GitCommandError"), snaps |-> snaps, value |-> None]
    ELSE With(FsCommit(snaps, S, message, StoreUser, StoreUser, 0), LAMBDA after :
             [S |-> IF IsIndex(S.cls) THEN _flush(S) ELSE S,
              snaps |-> after,
              value |-> Some(IF IsIndex(S.cls) THEN StoreSha(Len(after))
                             ELSE GitCommitOutput(after, Len(after)))])

\* repo.commit(rev): the position of the commit a hexsha names, 0 when rev
\* names none (BadName)
RepoCommit(snaps, rev) ==
    With({k \in 1..Len(snaps) : StoreSha(k) = rev}, LAMBDA found :
        IF found = {} THEN 0 ELSE CHOOSE k \in found : TRUE)

\* GitStatsFileSystem.head_message
head_message(snaps) == IF snaps = <<>> THEN None ELSE Some(snaps[Len(snaps)].message)

\* head.reset(commit, index=True, working_tree=True) in the clone: the files
\* of the revision, the directories that hold them, and .git
SrcOfTree(tree) == [files |-> tree, dirs |-> TreeDirs(tree) \cup {".git"}]

\* the tree of the commit before position i, the empty tree before the first
PrevTree(history, i) == IF i = 1 THEN EmptyMap ELSE history[i - 1].tree

\* the tree HEAD points to
HeadTree(history) == IF history = <<>> THEN EmptyMap ELSE history[Len(history)].tree

\* the a_path and b_path of commit.diff(prev_sha)
ChangedFiles(prev, tree) ==
    {p \in (DOMAIN prev) \cup (DOMAIN tree) :
        IF p \in DOMAIN prev /\ p \in DOMAIN tree THEN prev[p] # tree[p] ELSE TRUE}

\* str(prev_sha) of the commit before position i in the baseline message
PrevShaText(history, i) == IF i = 1 THEN "None" ELSE history[i - 1].id

\* generate_stats_fs_commits_for_source_commits, lines 209-222: the baseline;
\* without a parent the reset is to HEAD
Baseline(S, snaps, history, first) ==
    With(update(S, SrcOfTree(IF first = 1 THEN HeadTree(history)
                             ELSE history[first - 1].tree), None), LAMBDA r :
        [S |-> r.S,
         snaps |-> IF r.S.err = ""
                   THEN FsCommit(snaps, r.S,
                                 PrevShaText(history, first) \o "\nInitial gradon commit",
                                 StoreUser, StoreUser, 0)
                   ELSE snaps])

\* the catch-up step with a commit that carries the id alone
CatchUpUntagged(R, src, history, i, changed_files) ==
    With(IF i # 1 THEN update(R.S, SrcOfTree(history[i - 1].tree), Some(changed_files))
         ELSE update(R.S, src, Some({})), LAMBDA r :
        [S |-> r.S,
         snaps |-> IF r.S.err = ""
                   THEN FsCommit(R.snaps, r.S, history[i].id \o "\n",
                                 StoreUser, StoreUser, 0)
                   ELSE R.snaps])

\* lines 246-253: the catch-up update and commit of an incremental replay; src
\* is the clone's working tree before the step
CatchUp(R, src, history, i, changed_files) ==
    With(IF i # 1 THEN update(R.S, SrcOfTree(history[i - 1].tree), Some(changed_files))
         ELSE update(R.S, src, Some({})), LAMBDA r :
        [S |-> r.S,
         snaps |-> IF r.S.err = ""
                   THEN FsCommit(R.snaps, r.S, "[ignore] " \o history[i].id \o "\n",
                                 StoreUser, StoreUser, 0)
                   ELSE R.snaps])

\* lines 268-271: the two change manifests
AddLatestChanges(S, changed_files) ==
    With(FsAddFile(S, "LATEST_CHANGES.yaml", changed_files), LAMBDA T :
        IF T.err # "" THEN T
        ELSE FsAddFile(T, "LATEST_CHANGES_TOTAL.yaml", Cardinality(changed_files)))

\* lines 255-278: the update over the commit's tree and the commit yielded
Visible(R, history, i, changed_files) ==
    IF R.S.err # "" THEN R
    ELSE With(update(R.S, SrcOfTree(history[i].tree), Some(changed_files)), LAMBDA r :
         With(IF r.S.err = "" THEN AddLatestChanges(r.S, changed_files) ELSE r.S, LAMBDA T :
             [S |-> T,
              snaps |-> IF T.err = ""
                        THEN FsCommit(R.snaps, T,
                                      history[i].id \o "\n" \o history[i].message,
                                      history[i].author, history[i].committer, i)
                        ELSE R.snaps]))

\* one iteration with the catch-up step taken only when the head of the store
\* is not the commit yielded for the predecessor
ReplayOneCatchUpAtStart(S, snaps, src, history, i, incremental) ==
    With(ChangedFiles(PrevTree(history, i), history[i].tree), LAMBDA changed_files :
        Visible(IF incremental /\ (snaps = <<>> \/ snaps[Len(snaps)].of # i - 1)
                THEN CatchUp([S |-> S, snaps |-> snaps], src, history, i, changed_files)
                ELSE [S |-> S, snaps |-> snaps],
                history, i, changed_files))

\* lines 236-278: one iteration of the loop, for the commit at position i
ReplayOne(S, snaps, src, history, i, incremental) ==
    With(ChangedFiles(PrevTree(history, i), history[i].tree), LAMBDA changed_files :
        Visible(IF incremental
                THEN CatchUp([S |-> S, snaps |-> snaps], src, history, i, changed_files)
                ELSE [S |-> S, snaps |-> snaps],
                history, i, changed_files))

\* the trees one commit can lead to: a file added, modified, deleted, renamed
NextTrees(tree) ==
    {Put(tree, f, 1) : f \in ReplayFiles \ DOMAIN tree}
    \cup {Put(tree, f, 3 - tree[f]) : f \in DOMAIN tree}
    \cup {Drop(tree, f) : f \in DOMAIN tree}
    \cup {Put(Drop(tree, f[1]), f[2], tree[f[1]]) :
             f \in (DOMAIN tree) \X (ReplayFiles \ DOMAIN tree)}

ReplayInit ==
    /\ srcFiles = EmptyMap
    /\ srcDirs = SrcOfTree(EmptyMap).dirs
    /\ fsClass \in GitClasses
    /\ StoreIsFresh
    /\ last = Op("init")
    /\ nOps = 0
    /\ commits = <<>>
    /\ snapshots = <<>>
    /\ replay = [pc |-> "source", incremental |-> FALSE, next |-> 0]

\* the replay's result becomes the state; the clone's working tree is tree
Replayed(R, tree) ==
    /\ SetStore(R.S)
    /\ snapshots' = R.snaps
    /\ srcFiles' = tree
    /\ srcDirs' = SrcOfTree(tree).dirs
    /\ last' = Op("replay")
    /\ UNCHANGED <<fsClass, nOps, commits>>

\* a commit is made in the source repository
SourceCommit ==
    \E tree \in NextTrees(HeadTree(commits)), meta \in CommitMetas :
        /\ replay.pc = "source"
        /\ Len(commits) < MaxCommits
        /\ commits' = Append(commits,
               [id |-> CommitIds[Len(commits) + 1], message |-> meta.message,
                author |-> meta.author, committer |-> meta.committer, tree |-> tree])
        /\ srcFiles' = tree
        /\ srcDirs' = SrcOfTree(tree).dirs
        /\ UNCHANGED <<fsClass, disk, diskDirs, filesCache, dirsCache, statsCache, gitIndex, err,
                       runLog, last, nOps, snapshots, replay>>

\* generate_stats_fs_commits_for_source_commits up to its loop, for the range
\* that starts at the commit at position first and ends at HEAD
StartReplay ==
    \E incremental \in BOOLEAN, first \in 1..Len(commits) :
        /\ replay.pc = "source"
        /\ With(IF ~incremental /\ head_message(snapshots) = None
                THEN Baseline(Store, snapshots, commits, first)
                ELSE [S |-> Store, snaps |-> snapshots], LAMBDA R :
               /\ Replayed(R, IF ~incremental /\ first # 1 THEN commits[first - 1].tree
                              ELSE HeadTree(commits))
               /\ replay' = [pc |-> IF R.S.err = "" THEN "replay" ELSE "failed",
                             incremental |-> incremental, next |-> first])

\* one iteration of the loop
ReplayCommit ==
    /\ replay.pc = "replay"
    /\ With(ReplayOne(Store, snapshots, Src, commits, replay.next, replay.incremental),
            LAMBDA R :
           /\ Replayed(R, commits[replay.next].tree)
           /\ replay' = [replay EXCEPT
                  !.pc = IF R.S.err # "" THEN "failed"
                         ELSE IF replay.next = Len(commits) THEN "done" ELSE "replay",
                  !.next = @ + 1])

ReplayNext ==
    \/ SourceCommit
    \/ StartReplay
    \/ ReplayCommit

SpecReplay == ReplayInit /\ [][ReplayNext]_vars

(***************************************************************************)
(* The store's content as the properties read it: files is a working tree  *)
(* (resolved path -> content), d a directory, name a stats name.           *)
(***************************************************************************)
VariantNames == {"TOTAL", "TOTAL_TEST", "TOTAL_NON_TEST"}

UpdateKinds == {"full", "incremental"}

\* the file a stats name of a directory is stored in
StatsFile(d, name) == OsResolve(Join(d, name \o ".stats.yaml"))

HasStats(files, d, name) == StatsFile(d, name) \in DOMAIN files

StatsOf(files, d, name) == dict_to_series(files[StatsFile(d, name)])

\* the stored file of a stats name, None when there is none
StatsAt(files, d, name) ==
    IF HasStats(files, d, name) THEN Some(files[StatsFile(d, name)]) ELSE None

\* the per-file records: the files named <source file>.py.stats.yaml
RecordPaths(files) == {p \in DOMAIN files : EndsWith(p, ".py.stats.yaml")}

\* the source path a record file stands for
RecordSource(p) == SubSeq(p, 1, Len(p) - Len(".stats.yaml"))

\* the records of one directory
RecordsIn(files, d) == {p \in RecordPaths(files) : OsParent(p) = d}

\* the records of a directory and of everything below it
RecordsBelow(files, d) ==
    {p \in RecordPaths(files) : d \in {OsParent(p)} \cup OsAncestors(OsParent(p))}

\* the records a variant counts
OfVariant(paths, name) ==
    {p \in paths :
        \/ name = "TOTAL"
        \/ name = "TOTAL_TEST" /\ IsTest(Basename(RecordSource(p)))
        \/ name = "TOTAL_NON_TEST" /\ ~IsTest(Basename(RecordSource(p)))}

\* the key-wise sum of the records stored at a set of paths
RECURSIVE SumRecords(_, _)
SumRecords(files, paths) ==
    IF paths = {} THEN EmptyMap
    ELSE With(CHOOSE p \in paths : TRUE, LAMBDA p :
             SeriesAdd(dict_to_series(files[p]), SumRecords(files, paths \ {p})))

\* series equals the sum of the records at paths, a key no record has being 0
IsSumOf(series, files, paths) ==
    series = SeriesAdd(zero_series(series), SumRecords(files, paths))

\* the subdirectories of d
Subdirs(dirs, d) == {c \in dirs \ {"."} : OsParent(c) = d}

\* the key-wise sum of a stats name over a set of directories that have it
RECURSIVE SumStats(_, _, _)
SumStats(files, ds, name) ==
    IF ds = {} THEN EmptyMap
    ELSE With(CHOOSE c \in ds : TRUE, LAMBDA c :
             SeriesAdd(StatsOf(files, c, name), SumStats(files, ds \ {c}, name)))

\* SUBTREE_<name>(d) = <name>(d) + the SUBTREE_<name> of the subdirectories
\* that have one
SubtreeSum(files, dirs, d, name) ==
    SeriesAdd(IF HasStats(files, d, name) THEN StatsOf(files, d, name) ELSE EmptyMap,
              SumStats(files, {c \in Subdirs(dirs, d) : HasStats(files, c, "SUBTREE_" \o name)},
                       "SUBTREE_" \o name))

\* the directory totals of d are the sums of its records, or absent with none
TotalsMatchRecords(files, d) ==
    IF RecordsIn(files, d) = {}
    THEN \A name \in VariantNames : ~HasStats(files, d, name)
    ELSE /\ \A name \in VariantNames :
              /\ HasStats(files, d, name)
              /\ IsSumOf(StatsOf(files, d, name), files, OfVariant(RecordsIn(files, d), name))
         /\ StatsOf(files, d, "TOTAL") =
                SeriesAdd(StatsOf(files, d, "TOTAL_TEST"), StatsOf(files, d, "TOTAL_NON_TEST"))

\* the subtree totals of d are the sums of the records at and below d, or
\* absent with none
SubtreeMatchesRecords(files, d) ==
    \A name \in VariantNames :
        IF RecordsBelow(files, d) = {}
        THEN ~HasStats(files, d, "SUBTREE_" \o name)
        ELSE /\ HasStats(files, d, "SUBTREE_" \o name)
             /\ IsSumOf(StatsOf(files, d, "SUBTREE_" \o name), files,
                        OfVariant(RecordsBelow(files, d), name))

\* the state follows an update call that returned
AfterUpdate == last.kind \in UpdateKinds /\ err = ""

(***************************************************************************)
(* C1: after any sequence of update calls, every directory with a subtree  *)
(* aggregate has SUBTREE_TOTAL = TOTAL + the sum of the stored             *)
(* SUBTREE_TOTAL of its immediate subdirectories that have one, and        *)
(* likewise for the _TEST and _NON_TEST variants, up to the root.          *)
(***************************************************************************)
C1_SubtreeSum ==
    err = "" =>
        \A d \in diskDirs, name \in VariantNames :
            HasStats(disk, d, "SUBTREE_" \o name) =>
                StatsOf(disk, d, "SUBTREE_" \o name) = SubtreeSum(disk, diskDirs, d, name)

(***************************************************************************)
(* C2: after any sequence of update calls, every directory holding a       *)
(* per-file record has TOTAL, TOTAL_TEST and TOTAL_NON_TEST, each the sum  *)
(* of the records it counts, with TOTAL = TOTAL_TEST + TOTAL_NON_TEST; a   *)
(* directory holding no record has none of the three.                      *)
(***************************************************************************)
C2_DirTotals ==
    err = "" => \A d \in diskDirs \cup {"."} : TotalsMatchRecords(disk, d)

(***************************************************************************)
(* C3: within one upward propagation, a directory's subtree aggregate is   *)
(* recomputed before that of any of its ancestors, the root included, for  *)
(* names of every length.                                                  *)
(***************************************************************************)
C3_DescendantFirst ==
    \A i, j \in 1..Len(runLog.order) :
        i < j => runLog.order[i] \notin OsAncestors(OsResolve(runLog.order[j]))

(***************************************************************************)
(* C4: an incremental update whose changed set names a recorded file that  *)
(* is gone from the source removes the file's record, returns its          *)
(* directory as dirty, and leaves the directory's TOTAL* and every         *)
(* ancestor's SUBTREE_TOTAL* without the removed file's values.            *)
(***************************************************************************)
C4_DeletedFileRemoved ==
    (last.kind = "incremental" /\ err = "") =>
        \A p \in last.changed[1] :
            (p \notin DOMAIN srcFiles /\ \E r \in runLog.removed : OsResolve(r) = p) =>
                /\ ~HasStats(disk, OsParent(p), Basename(p))
                /\ OsParent(p) \in last.dirty
                /\ TotalsMatchRecords(disk, OsParent(p))
                /\ \A a \in {OsParent(p)} \cup OsAncestors(OsParent(p)) :
                       SubtreeMatchesRecords(disk, a)

(***************************************************************************)
(* C5: a second update(None) with no source change in between leaves the   *)
(* store exactly as the first one left it.                                 *)
(***************************************************************************)
C5_FullRescanIdempotent ==
    (last.kind = "full" /\ err = "") => update(Store, Src, None).S.disk = disk

\* a directory below d holds stats
HasDataBelow(files, d) ==
    \E q \in DOMAIN files : EndsWith(q, ".stats.yaml") /\ d \in OsAncestors(OsParent(q))

(***************************************************************************)
(* C7: when an update removes the last per-file record of a directory      *)
(* with no subdirectory holding data, the directory's TOTAL* and           *)
(* SUBTREE_TOTAL* files are gone, the directory itself is gone from the    *)
(* store, and ls_dirs of its parent no longer lists it.                    *)
(***************************************************************************)
C7_EmptyDirPruned ==
    AfterUpdate =>
        \A r \in runLog.removed :
            With(OsParent(OsResolve(r)), LAMBDA d :
                (d # "." /\ RecordsIn(disk, d) = {} /\ ~HasDataBelow(disk, d)) =>
                    /\ \A name \in VariantNames :
                           /\ ~HasStats(disk, d, name)
                           /\ ~HasStats(disk, d, "SUBTREE_" \o name)
                    /\ d \notin diskDirs
                    /\ Basename(d) \notin FsLsDirs(Store, OsParent(d)))

(***************************************************************************)
(* C8: after update(None) the store holds a per-file record for a path     *)
(* only if that file exists in the source tree, also for records stored    *)
(* under a directory that is gone from the source tree.                    *)
(***************************************************************************)
C8_RecordsOnlyForSourceFiles ==
    (last.kind = "full" /\ err = "") =>
        \A p \in RecordPaths(disk) : RecordSource(p) \in DOMAIN srcFiles

\* the source files an update call is to analyze: every '.py' file on a full
\* rescan, the changed ones that exist otherwise
Candidates(changed_files) ==
    {f \in DOMAIN srcFiles :
        EndsWith(f, ".py") /\ (changed_files = None \/ f \in changed_files[1])}

\* the stored content of the three directory totals of d
TotalsAt(files, d) == [name \in VariantNames |-> StatsAt(files, d, name)]

\* an update call ran in this step and returned
UpdateStep == nOps' = nOps + 1 /\ last'.kind \in UpdateKinds /\ err' = ""

\* C9, for one step
C9_Step ==
    UpdateStep =>
        /\ \A f \in Candidates(last'.changed) :
               srcFiles[f] # Unparseable => \E s \in runLog'.stored : OsResolve(s) = f
        /\ \A p \in runLog'.failed :
               /\ p \notin runLog'.stored
               /\ StatsAt(disk', OsParent(OsResolve(p)), Basename(p)) =
                      StatsAt(disk, OsParent(OsResolve(p)), Basename(p))
               /\ (\A s \in runLog'.stored \cup runLog'.removed :
                       OsParent(OsResolve(s)) # OsParent(OsResolve(p)))
                  => TotalsAt(disk', OsParent(OsResolve(p))) =
                         TotalsAt(disk, OsParent(OsResolve(p)))
        /\ (runLog'.stored = {} /\ runLog'.removed = {})
               => (last'.dirty = {} /\ runLog'.order = <<>> /\ disk' = disk)

(***************************************************************************)
(* C9: when the analysis of a file fails during an update, the update goes *)
(* on with the other candidate files, writes no record for the failed      *)
(* file, leaves a record the path already has as it is, and the failure    *)
(* alone makes no directory dirty: no aggregate is recomputed for it.      *)
(***************************************************************************)
C9_AnalysisFailedSkipped == [][C9_Step]_vars

\* an update went on after a failed analysis of a file that has a record
C9_Witness ==
    /\ AfterUpdate
    /\ runLog.stored # {}
    /\ \E p \in runLog.failed : HasStats(disk, OsParent(OsResolve(p)), Basename(p))

\* the stats files of a tree: the per-file records and the aggregates
StatsTree(files) == [p \in {q \in DOMAIN files : EndsWith(q, ".stats.yaml")} |-> files[p]]

(***************************************************************************)
(* C6: after a forward, non-incremental range replay from an empty store,  *)
(* the tree of the final snapshot commit holds the same per-file records   *)
(* and the same TOTAL* and SUBTREE_TOTAL* aggregates as one full           *)
(* update(None) into a fresh store over the last commit's files.           *)
(***************************************************************************)
C6_ReplayEqualsFullUpdate ==
    (replay.pc = "done" /\ ~replay.incremental) =>
        StatsTree(snapshots[Len(snapshots)].tree) =
            StatsTree(update(FreshStore(fsClass), SrcOfTree(HeadTree(commits)), None).S.disk)

\* s.lstrip()
RECURSIVE LStripSpace(_)
LStripSpace(s) ==
    IF Len(s) > 0 /\ IsSpace(Char(s, 1)) THEN LStripSpace(SubSeq(s, 2, Len(s))) ELSE s

\* the characters of s before its first whitespace
RECURSIVE TakeToken(_)
TakeToken(s) ==
    IF s = "" \/ IsSpace(Char(s, 1)) THEN ""
    ELSE Char(s, 1) \o TakeToken(SubSeq(s, 2, Len(s)))

\* s.split()[0]
FirstToken(s) == TakeToken(LStripSpace(s))

(***************************************************************************)
(* C10: every snapshot commit the range replay yields for a source commit  *)
(* c has the message c's id, a newline, c's original message, so the first *)
(* whitespace-delimited token of the message is c's id, and it carries c's *)
(* author and committer.                                                   *)
(***************************************************************************)
C10_SnapshotMessage ==
    \A k \in 1..Len(snapshots) :
        snapshots[k].of # 0 =>
            /\ snapshots[k].message =
                   commits[snapshots[k].of].id \o "\n" \o commits[snapshots[k].of].message
            /\ FirstToken(snapshots[k].message) = commits[snapshots[k].of].id
            /\ snapshots[k].author = commits[snapshots[k].of].author
            /\ snapshots[k].committer = commits[snapshots[k].of].committer

(***************************************************************************)
(* Runs of the command on a store that may hold earlier runs (core.py):    *)
(* update_stats_fs_from_repo with a revision range, and                    *)
(* generate_stats_fs_commit_for_diff. Every run constructs the store       *)
(* object and its StatsUpdater anew, so the listing caches and the stats   *)
(* cache start empty; the working tree and the history are what the        *)
(* earlier runs left. nOps counts the runs that were started.              *)
(***************************************************************************)
MaxRuns == 2

\* the names first_rev is given by
RevNames == {"HEAD~1"}

\* GitStatsFileSystem(path) on an existing repository: the object's caches
\* are empty, the working tree is the one on disk
OpenStore(cls, files, dirs) ==
    [FreshStore(cls) EXCEPT !.disk = files, !.dirs = dirs]

\* a line of message starts with hexsha (git log --grep=^<hexsha>)
GrepMatches(message, hexsha) ==
    With(SplitLines(message), LAMBDA lines :
        \E j \in 1..Len(lines) : StartsWith(lines[j], hexsha))

\* GitStatsFileSystem.get_rev_for_sha: the position of the latest commit of
\* the history that matches, 0 for None
get_rev_for_sha(snaps, hexsha) ==
    With({k \in 1..Len(snaps) : GrepMatches(snaps[k].message, hexsha)}, LAMBDA found :
        IF found = {} THEN 0 ELSE CHOOSE k \in found : \A j \in found : j <= k)

\* a reset that ends the branch at the parent of the commit at position k
HeadResetToParent(snaps, k) == SubSeq(snaps, 1, k - 1)

\* repo.head.reset(dest_start_sha, index=True, working_tree=True): the
\* branch ends at the commit at position k
HeadReset(snaps, k) == SubSeq(snaps, 1, k)

\* update_stats_fs_from_repo, lines 155-162: the history and the working
\* tree after the reset to the snapshot of the start revision, if there is one
Restart(snaps, files, dirs, hexsha) ==
    With(get_rev_for_sha(snaps, hexsha), LAMBDA k :
        IF k = 0 THEN [snaps |-> snaps, files |-> files, dirs |-> dirs, at |-> 0]
        ELSE [snaps |-> HeadReset(snaps, k), files |-> snaps[k].tree,
              dirs |-> TreeDirs(snaps[k].tree) \cup {".git"}, at |-> k])

\* source_repo.commit(rev): the position of the commit a name stands for
RevPosition(history, rev) ==
    IF rev = "HEAD" THEN Len(history) ELSE Len(history) - 1

\* the state the replay starts in
RangeInit ==
    /\ srcFiles = EmptyMap
    /\ srcDirs = SrcOfTree(EmptyMap).dirs
    /\ fsClass \in GitClasses
    /\ StoreIsFresh
    /\ last = Op("init")
    /\ nOps = 0
    /\ commits = <<>>
    /\ snapshots = <<>>
    /\ replay = [pc |-> "source", incremental |-> FALSE, next |-> 0, at |-> 0]

\* update_stats_fs_from_repo up to the loop of the generator. whole: no
\* range is given, the start revision is the root commit and every commit is
\* replayed; otherwise the range is <commit at start>..HEAD
StartRange ==
    \E incremental \in BOOLEAN, whole \in BOOLEAN, start \in 1..Len(commits) :
        /\ replay.pc = "source"
        /\ nOps < MaxRuns
        /\ IF whole THEN start = 1 ELSE start < Len(commits)
        /\ With(Restart(snapshots, disk, diskDirs, commits[start].id), LAMBDA at :
           With(IF whole THEN 1 ELSE start + 1, LAMBDA first :
           With(IF ~incremental /\ head_message(at.snaps) = None
                THEN Baseline(OpenStore(fsClass, at.files, at.dirs), at.snaps, commits, first)
                ELSE [S |-> OpenStore(fsClass, at.files, at.dirs), snaps |-> at.snaps],
                LAMBDA R :
               /\ SetStore(R.S)
               /\ snapshots' = R.snaps
               /\ srcFiles' = IF ~incremental /\ head_message(at.snaps) = None /\ first # 1
                              THEN commits[first - 1].tree ELSE HeadTree(commits)
               /\ srcDirs' = SrcOfTree(srcFiles').dirs
               /\ replay' = [pc |-> IF R.S.err = "" THEN "replay" ELSE "failed",
                             incremental |-> incremental, next |-> first, at |-> at.at])))
        /\ last' = Op("range")
        /\ nOps' = nOps + 1
        /\ UNCHANGED <<fsClass, commits>>

\* the generator is exhausted and the run returns
EndRange ==
    /\ replay.pc = "done"
    /\ replay' = [replay EXCEPT !.pc = "source"]
    /\ UNCHANGED <<srcFiles, srcDirs, fsClass, disk, diskDirs, filesCache, dirsCache,
                   statsCache, gitIndex, err, runLog, last, nOps, commits, snapshots>>

\* a new StatsUpdater over the store: a new adapter with an empty cache
NewStatsUpdater(S) == [S EXCEPT !.scache = EmptyMap]

\* generate_stats_fs_commit_for_diff, lines 294-301: the update over the tree
\* of first_rev and the commit tagged [ignore]
DiffBefore(S, snaps, before, changed_files) ==
    With(update(NewStatsUpdater(S), SrcOfTree(before.tree), Some(changed_files)), LAMBDA r :
        [S |-> r.S,
         snaps |-> IF r.S.err = ""
                   THEN FsCommit(snaps, r.S, "[ignore] " \o before.id, StoreUser, StoreUser, 0)
                   ELSE snaps])

\* lines 303-322: the update over the tree of second_rev or over the live
\* working tree, the two manifests, and the commit that is returned
DiffAfter(R, after, changed_files, label) ==
    IF R.S.err # "" THEN R
    ELSE With(update(NewStatsUpdater(R.S), SrcOfTree(after), Some(changed_files)), LAMBDA r :
         With(IF r.S.err = "" THEN AddLatestChanges(r.S, changed_files) ELSE r.S, LAMBDA T :
             [S |-> T,
              snaps |-> IF T.err = ""
                        THEN FsCommit(R.snaps, T, label, StoreUser, StoreUser, 0)
                        ELSE R.snaps]))

\* generate_stats_fs_commit_for_diff(first_rev, second_rev): None is <<>>;
\* worktree is the live working tree of the source repository, the tree of
\* HEAD with at most one file added, modified, deleted or renamed
generate_stats_fs_commit_for_diff ==
    \E first_rev \in {None} \cup {Some(n) : n \in RevNames},
       second_rev \in {None, Some("HEAD")},
       worktree \in {HeadTree(commits)} \cup NextTrees(HeadTree(commits)) :
        /\ replay.pc = "source"
        /\ second_rev # None => worktree = HeadTree(commits)
        /\ nOps < MaxRuns
        /\ commits # <<>>
        /\ With(IF first_rev = None THEN "HEAD" ELSE first_rev[1], LAMBDA first :
               /\ RevPosition(commits, first) >= 1
               /\ With(commits[RevPosition(commits, first)], LAMBDA before :
                  With(IF second_rev = None THEN worktree ELSE HeadTree(commits), LAMBDA after :
                  With(ChangedFiles(before.tree, after), LAMBDA changed_files :
                  \E R0 \in {DiffBefore(OpenStore(fsClass, disk, diskDirs), snapshots,
                                         before, changed_files)} :
                  \E R \in {DiffAfter(R0, after, changed_files,
                                      first \o ".." \o (IF second_rev = None
                                                        THEN "<working tree>"
                                                        ELSE second_rev[1]))} :
                      /\ SetStore(R.S)
                      /\ snapshots' = R.snaps
                      /\ srcFiles' = after
                      /\ srcDirs' = SrcOfTree(after).dirs
                      /\ last' = [kind |-> "diff", changed |-> Some(changed_files),
                                  dirty |-> {}, first |-> first, second |-> second_rev,
                                  returned |-> IF R.S.err = "" THEN Len(R.snaps) ELSE 0]))))
        /\ nOps' = nOps + 1
        /\ UNCHANGED <<fsClass, commits, replay>>

RangeNext ==
    \/ SourceCommit
    \/ StartRange
    \/ ReplayCommit
    \/ EndRange

SpecRange == RangeInit /\ [][RangeNext]_vars

DiffNext ==
    \/ SourceCommit
    \/ generate_stats_fs_commit_for_diff

SpecDiff == RangeInit /\ [][DiffNext]_vars

\* the subjects of the commits of a history, oldest first
Subjects(snaps) == [k \in 1..Len(snaps) |-> Subject(snaps[k].message)]

\* a step of the loop of an incremental replay that ran to its end
IncrementalStep ==
    /\ replay.pc = "replay"
    /\ replay.incremental
    /\ replay'.pc \in {"replay", "done"}

(***************************************************************************)
(* C11: in an incremental range replay, for every source commit c of the   *)
(* requested sequence the store history gains exactly two commits, in this *)
(* order: a catch-up commit whose message is '[ignore] ' followed by c's   *)
(* id, holding the store as the update over the tree of c's predecessor    *)
(* for the changed paths left it, and then the visible commit for c, whose *)
(* direct parent is the catch-up commit; the history before the step is    *)
(* kept.                                                                   *)
(***************************************************************************)
C11_IncrementalTwoCommits ==
    [][IncrementalStep =>
        /\ Len(snapshots') = Len(snapshots) + 2
        /\ SubSeq(snapshots', 1, Len(snapshots)) = snapshots
        /\ Subject(snapshots'[Len(snapshots) + 1].message)
               = "[ignore] " \o commits[replay.next].id
        /\ snapshots'[Len(snapshots) + 1].of = 0
        /\ snapshots'[Len(snapshots) + 1].tree =
               (IF replay.next = 1 THEN update(Store, Src, Some({}))
                ELSE update(Store, SrcOfTree(commits[replay.next - 1].tree),
                            Some(ChangedFiles(commits[replay.next - 1].tree,
                                              commits[replay.next].tree)))).S.disk
        /\ snapshots'[Len(snapshots) + 2].of = replay.next
        /\ Subject(snapshots'[Len(snapshots) + 2].message) = commits[replay.next].id]_vars

\* an incremental replay of a two-commit range into an empty store ran to
\* its end: the history is [ignore] c1, c1, [ignore] c2, c2
C11_Witness ==
    /\ replay.pc = "done"
    /\ replay.incremental
    /\ Len(commits) = 2
    /\ Subjects(snapshots) = <<"[ignore] c1", "c1", "[ignore] c2", "c2">>

\* the commits a step added to the history that are tagged [ignore]
AddedCatchUps ==
    {k \in (Len(snapshots) + 1)..Len(snapshots') :
        StartsWith(snapshots'[k].message, "[ignore] ")}

\* the store's head is the commit yielded for the predecessor of the commit
\* the loop is at: the commit is a later commit of the range
FollowsHead ==
    /\ replay.next > 1
    /\ snapshots # <<>>
    /\ snapshots[Len(snapshots)].of = replay.next - 1

(***************************************************************************)
(* C12: in a range replay, every step of the loop that runs to its end     *)
(* creates exactly one catch-up commit tagged [ignore] when the replay is  *)
(* incremental, also for a later commit of the range whose predecessor's   *)
(* state the store already holds, and none when it is not incremental.     *)
(***************************************************************************)
C12_CatchUpForEveryCommit ==
    [][(replay.pc = "replay" /\ replay'.pc \in {"replay", "done"}) =>
        Cardinality(AddedCatchUps) = IF replay.incremental THEN 1 ELSE 0]_vars

\* C12 as stated: in an incremental replay, no [ignore] commit is created
\* for a later commit of the range, whose predecessor's state the store
\* holds from the preceding step
C12_CatchUpAtRangeStartOnly ==
    [][(IncrementalStep /\ FollowsHead) => AddedCatchUps = {}]_vars

\* an incremental replay created the catch-up commit of a later commit of
\* its range, between the commit yielded for c1 and the one yielded for c2
C12_Witness ==
    /\ replay.incremental
    /\ Len(snapshots) >= 3
    /\ snapshots[Len(snapshots)].of = 2
    /\ StartsWith(snapshots[Len(snapshots) - 1].message, "[ignore] c2")
    /\ snapshots[Len(snapshots) - 2].of = 1

\* the record the analysis of a source file with this content is stored as
RecordOf(content) == series_to_dict(dict_to_series(_analyze_file(content)[1]))

\* a store tree holds for the source path p exactly the record of p in the
\* source tree, and none when the source tree has no such file
HoldsRecordAsOf(files, tree, p) ==
    IF p \in DOMAIN tree
    THEN /\ (p \o ".stats.yaml") \in DOMAIN files
         /\ files[p \o ".stats.yaml"] = RecordOf(tree[p])
    ELSE (p \o ".stats.yaml") \notin DOMAIN files

(***************************************************************************)
(* C13: in an incremental replay, at the catch-up commit that precedes the *)
(* visible commit for source commit c, for every path in the changed-path  *)
(* set between c's predecessor and c the store holds exactly the record    *)
(* that analysing the predecessor's tree yields for that path, and no      *)
(* record where the file is absent from the predecessor, whatever the      *)
(* store contained before the replay started.                              *)
(***************************************************************************)
C13_CatchUpHoldsPredecessor ==
    [][IncrementalStep =>
        \A p \in ChangedFiles(PrevTree(commits, replay.next), commits[replay.next].tree) :
            HoldsRecordAsOf(snapshots'[Len(snapshots) + 1].tree,
                            PrevTree(commits, replay.next), p)]_vars

\* the step of a run from the call to the loop of the generator
StartStep == replay.pc = "source" /\ replay'.pc = "replay"

(***************************************************************************)
(* C14: with incremental false and a store that has no head commit, the    *)
(* range replay creates exactly one baseline commit before the first       *)
(* visible commit is yielded, and the baseline holds a full update(None)   *)
(* of the tree of the first range commit's parent, the empty tree when it  *)
(* has no parent; when the store has a head commit, or incremental is      *)
(* true, no baseline commit is created.                                    *)
(***************************************************************************)
C14_Baseline ==
    [][StartStep =>
        IF ~replay'.incremental /\ head_message(snapshots) = None
        THEN /\ Len(snapshots') = 1
             /\ snapshots'[1].of = 0
             /\ StatsTree(snapshots'[1].tree) =
                    StatsTree(update(FreshStore(fsClass),
                                     SrcOfTree(PrevTree(commits, replay'.next)),
                                     None).S.disk)
        ELSE snapshots' = SubSeq(snapshots, 1, Len(snapshots'))]_vars

\* the position of the start revision of the run whose loop is at next: the
\* root commit when no range is given, the commit before the first otherwise
StartOf(next) == IF next = 1 THEN 1 ELSE next - 1

\* the commits of the store whose message has a line that starts with the id
\* of the start revision
SnapshotsOfStart(next) ==
    {k \in 1..Len(snapshots) : GrepMatches(snapshots[k].message, commits[StartOf(next)].id)}

DiffStep == last'.kind = "diff" /\ nOps' = nOps + 1

\* the label of the commit the call returns
DiffLabel(first, second_rev) ==
    first \o ".." \o (IF second_rev = None THEN "<working tree>" ELSE second_rev[1])

(***************************************************************************)
(* C16: generate_stats_fs_commit_for_diff(first, second) runs the update   *)
(* twice over the same changed-path set and adds exactly two commits to    *)
(* the store: a commit '[ignore] ' + id(first) that holds the changed      *)
(* paths' records as of first, then its child, whose message is            *)
(* '<first>..<second>' with the revision names as given ('HEAD' when first *)
(* is None, '<working tree>' when second is None) and which holds the      *)
(* changed paths' records as of second or of the live working tree; the    *)
(* call returns the second commit.                                         *)
(***************************************************************************)
C16_DiffTwoCommits ==
    [][DiffStep =>
        /\ Len(snapshots') = Len(snapshots) + 2
        /\ SubSeq(snapshots', 1, Len(snapshots)) = snapshots
        /\ RStripSpace(snapshots'[Len(snapshots) + 1].message)
               = "[ignore] " \o commits[RevPosition(commits, last'.first)].id
        /\ RStripSpace(snapshots'[Len(snapshots) + 2].message)
               = DiffLabel(last'.first, last'.second)
        /\ last'.returned = Len(snapshots) + 2
        /\ last'.changed =
               Some(ChangedFiles(commits[RevPosition(commits, last'.first)].tree, srcFiles'))
        /\ \A p \in last'.changed[1] :
               /\ HoldsRecordAsOf(snapshots'[Len(snapshots) + 1].tree,
                                  commits[RevPosition(commits, last'.first)].tree, p)
               /\ HoldsRecordAsOf(snapshots'[Len(snapshots) + 2].tree, srcFiles', p)]_vars

(***************************************************************************)
(* The delta reconstruction (core.py, generate_stats_for_stats_fs_commits) *)
(* for one commit of the store and its direct parent. The inputs are the   *)
(* two trees (record path -> stored dict) and the change manifest of the   *)
(* commit, LATEST_CHANGES.yaml (source path -> lines, insertions,          *)
(* deletions).                                                             *)
(***************************************************************************)
MaxRecords == 2
MaxEntries == 2

\* the record files and the stored records the trees are drawn from
RecordFiles == {"f.py.stats.yaml", "a/TOTAL.stats.yaml", "SUBTREE_TOTAL.stats.yaml"}
StoredRecords == {_analyze_file(1)[1], _analyze_file(2)[1]}

\* the entries a change manifest is drawn from: git's numstat of a path
LineStats ==
    ("f.py" :> [lines |-> 1, insertions |-> 1, deletions |-> 0])
    @@ ("a/g.py" :> [lines |-> 30, insertions |-> 20, deletions |-> 10])
    @@ ("ab/g.py" :> [lines |-> 500, insertions |-> 300, deletions |-> 200])
    @@ ("a/test_g.py" :> [lines |-> 7000, insertions |-> 4000, deletions |-> 3000])

\* the filters a caller passes: None, or regular expressions that are
\* literal text
FilterChoices == {None, Some({"TOTAL"})}

\* the trees of at most MaxRecords records
RecordTrees ==
    UNION {[paths -> StoredRecords] :
              paths \in {ps \in SUBSET RecordFiles : Cardinality(ps) <= MaxRecords}}

\* the manifests of at most MaxEntries entries
Manifests ==
    {[p \in entries |-> LineStats[p]] :
        entries \in {es \in SUBSET DOMAIN LineStats : Cardinality(es) <= MaxEntries}}

\* a number of a Series that may be NaN: <<v>> is the number v, <<>> is NaN
Num(v) == <<v>>
NotANumber == <<>>

\* after - before of two Series: the index is the key union, a key missing
\* on one side gives NaN
SeriesMinus(after, before) ==
    [k \in (DOMAIN after) \cup (DOMAIN before) |->
        IF k \in DOMAIN after /\ k \in DOMAIN before
        THEN Num(after[k] - before[k]) ELSE NotANumber]

\* Series.mul(sign)
SeriesMul(series, sign) ==
    [k \in DOMAIN series |->
        IF series[k] = NotANumber THEN NotANumber ELSE Num(series[k][1] * sign)]

\* stats_fs_adapter.read_stats_file
read_stats_file(contents) == dict_to_series(contents)

\* prev_commit.diff(commit.hexsha): GitPython passes -M, so a deleted and an
\* added path that git pairs are one entry; renamed is the set of the pairs
Diffs(prev, tree, renamed) ==
    {[a_path |-> p, b_path |-> p, new_file |-> FALSE, deleted_file |-> FALSE] :
        p \in {q \in (DOMAIN prev) \cap (DOMAIN tree) : prev[q] # tree[q]}}
    \cup {[a_path |-> p, b_path |-> p, new_file |-> TRUE, deleted_file |-> FALSE] :
        p \in ((DOMAIN tree) \ (DOMAIN prev)) \ {r[2] : r \in renamed}}
    \cup {[a_path |-> p, b_path |-> p, new_file |-> FALSE, deleted_file |-> TRUE] :
        p \in ((DOMAIN prev) \ (DOMAIN tree)) \ {r[1] : r \in renamed}}
    \cup {[a_path |-> r[1], b_path |-> r[2], new_file |-> FALSE, deleted_file |-> FALSE] :
        r \in renamed}

\* the pairings git's rename detection can report: a deleted and an added
\* path with the same content are paired, two with similar content may be
RenameChoices(prev, tree) ==
    With({r \in ((DOMAIN prev) \ (DOMAIN tree)) \X ((DOMAIN tree) \ (DOMAIN prev)) :
             EndsWith(r[1], ".stats.yaml") /\ EndsWith(r[2], ".stats.yaml")},
         LAMBDA candidates :
        {rs \in SUBSET candidates :
            /\ \A r1, r2 \in rs : (r1[1] = r2[1] \/ r1[2] = r2[2]) => r1 = r2
            /\ \A c \in candidates :
                   prev[c[1]] = tree[c[2]] =>
                       \E r \in rs : (r[1] = c[1] \/ r[2] = c[2]) /\ prev[r[1]] = tree[r[2]]})

\* _generate_changed_files: the (src, dest) pairs of the record files
_generate_changed_files(prev, tree, renamed) ==
    {<<IF diff.new_file THEN None ELSE Some(diff.a_path),
       IF diff.deleted_file THEN None ELSE Some(diff.b_path)>> :
        diff \in {d \in Diffs(prev, tree, renamed) : EndsWith(d.a_path, ".stats.yaml")}}

\* not any(re.search(p, file) for p in filters)
FilteredOut(filters, file) ==
    filters # None /\ \A p \in filters[1] : Find(file, p, 1) = 0

\* lines 104-107: the prefix the manifest entries of a record start with
Prefix(filename) == IF EndsWith(filename, ".py") THEN filename ELSE Dirname(filename)

\* generate_deltas: the entries of the manifest that are counted
generate_deltas(line_changes, prefix) ==
    {entry \in DOMAIN line_changes : ~(prefix # "" /\ ~StartsWith(entry, prefix))}

\* lines 122-130: the sums of (lines, insertions, deletions) over entries
RECURSIVE LineTotal(_, _)
LineTotal(line_changes, entries) ==
    IF entries = {} THEN <<0, 0, 0>>
    ELSE With(CHOOSE e \in entries : TRUE, LAMBDA e :
         With(LineTotal(line_changes, entries \ {e}), LAMBDA rest :
             <<rest[1] + line_changes[e].lines,
               rest[2] + line_changes[e].insertions,
               rest[3] + line_changes[e].deletions>>))

\* the Stats tuple with the diff as computed, whichever side the file is
StatsRowsUnsigned(file, dest, commit, line_changes, filters, diff, after) ==
    With(Replace(file, ".stats.yaml", ""), LAMBDA filename :
        IF FilteredOut(filters, file) THEN <<>>
        ELSE With(generate_deltas(line_changes, Prefix(filename)), LAMBDA entries :
            <<[filename |-> filename,
               commit |-> commit,
               lines |-> LineTotal(line_changes, entries),
               lines_test |->
                   LineTotal(line_changes, {e \in entries : IsTest(Basename(e))}),
               lines_non_test |->
                   LineTotal(line_changes, {e \in entries : ~IsTest(Basename(e))}),
               delta |-> diff,
               after |-> after]>>))

\* lines 96-133: the Stats tuple yielded for one file of a pair, none when
\* the filters drop it
StatsRows(file, dest, commit, line_changes, filters, diff, after) ==
    With(Replace(file, ".stats.yaml", ""), LAMBDA filename :
        IF FilteredOut(filters, file) THEN <<>>
        ELSE With(generate_deltas(line_changes, Prefix(filename)), LAMBDA entries :
            <<[filename |-> filename,
               commit |-> commit,
               lines |-> LineTotal(line_changes, entries),
               lines_test |->
                   LineTotal(line_changes, {e \in entries : IsTest(Basename(e))}),
               lines_non_test |->
                   LineTotal(line_changes, {e \in entries : ~IsTest(Basename(e))}),
               delta |-> SeriesMul(diff, IF Some(file) = dest THEN 1 ELSE -1),
               after |-> after]>>))

\* lines 76-133: the tuples yielded for one (src, dest) pair
PairRows(pair, prev, tree, commit, line_changes, filters) ==
    With(IF pair[1] # None THEN Some(read_stats_file(prev[pair[1][1]])) ELSE None,
         LAMBDA loaded_before :
    With(IF pair[2] # None THEN Some(read_stats_file(tree[pair[2][1]])) ELSE None,
         LAMBDA loaded_after :
    With(IF loaded_before = None THEN zero_series(loaded_after[1]) ELSE loaded_before[1],
         LAMBDA before :
    With(IF loaded_after = None THEN zero_series(before) ELSE loaded_after[1],
         LAMBDA after :
    With(SetToSeq({pair[1], pair[2]} \ {None}), LAMBDA files :
        IF Len(files) = 1
        THEN StatsRows(files[1][1], pair[2], commit, line_changes, filters,
                       SeriesMinus(after, before), after)
        ELSE StatsRows(files[1][1], pair[2], commit, line_changes, filters,
                       SeriesMinus(after, before), after)
             \o StatsRows(files[2][1], pair[2], commit, line_changes, filters,
                          SeriesMinus(after, before), after))))))

\* the loop over the changed files of one commit
RECURSIVE AllRows(_, _, _, _, _, _)
AllRows(pairs, prev, tree, commit, line_changes, filters) ==
    IF pairs = {} THEN <<>>
    ELSE With(CHOOSE p \in pairs : TRUE, LAMBDA pair :
             PairRows(pair, prev, tree, commit, line_changes, filters)
             \o AllRows(pairs \ {pair}, prev, tree, commit, line_changes, filters))

\* the store history of the delta reconstruction: a parent commit and the
\* commit the tuples are generated for, with its manifest
StoreCommit(message, tree) ==
    [message |-> message, author |-> StoreUser, committer |-> StoreUser,
     tree |-> tree, of |-> 0]

DeltaInit ==
    /\ srcFiles = EmptyMap
    /\ srcDirs = SrcOfTree(EmptyMap).dirs
    /\ fsClass = "GitCachedStatsFileSystem"
    /\ StoreIsFresh
    /\ last = Op("init")
    /\ nOps = 0
    /\ commits = <<>>
    /\ \E prev \in RecordTrees, tree \in RecordTrees, line_changes \in Manifests :
           snapshots = <<StoreCommit("c1\n", prev),
                         StoreCommit("c2\n", ("LATEST_CHANGES.yaml" :> line_changes) @@ tree)>>
    /\ replay = [pc |-> "stats", incremental |-> FALSE, next |-> 0]

\* generate_stats_for_stats_fs_commits for the head commit of the store
generate_stats_for_stats_fs_commits ==
    \E filters \in FilterChoices,
       renamed \in RenameChoices(snapshots[1].tree, snapshots[2].tree) :
        /\ replay.pc = "stats"
        /\ \E changed_files \in {_generate_changed_files(snapshots[1].tree,
                                                         snapshots[2].tree, renamed)} :
           \E rows \in {AllRows(changed_files, snapshots[1].tree, snapshots[2].tree, 2,
                                snapshots[2].tree["LATEST_CHANGES.yaml"], filters)} :
               last' = [kind |-> "stats", changed |-> None, dirty |-> {},
                        filters |-> filters, pairs |-> changed_files, rows |-> rows]
        /\ replay' = [replay EXCEPT !.pc = "done"]
        /\ nOps' = nOps + 1
        /\ UNCHANGED <<srcFiles, srcDirs, fsClass, disk, diskDirs, filesCache, dirsCache,
                       statsCache, gitIndex, err, runLog, commits, snapshots>>

SpecDelta == DeltaInit /\ [][generate_stats_for_stats_fs_commits]_vars

(***************************************************************************)
(* The delta reconstruction as the properties read it: the parent's tree,  *)
(* the commit's tree, and the tuples the call yielded.                     *)
(***************************************************************************)
ParentTree == snapshots[1].tree
CommitTree == snapshots[2].tree

\* the record files of a tree
RecordFilesOf(files) == {p \in DOMAIN files : EndsWith(p, ".stats.yaml")}

\* the record paths that changed between the commit and its direct parent
ChangedRecords ==
    {p \in RecordFilesOf(ParentTree) \cup RecordFilesOf(CommitTree) :
        IF p \in DOMAIN ParentTree /\ p \in DOMAIN CommitTree
        THEN ParentTree[p] # CommitTree[p] ELSE TRUE}

\* the keys of the record path p in either tree
KeysOf(p) ==
    (IF p \in DOMAIN ParentTree THEN DOMAIN dict_to_series(ParentTree[p]) ELSE {})
    \cup (IF p \in DOMAIN CommitTree THEN DOMAIN dict_to_series(CommitTree[p]) ELSE {})

\* the value of key k of the record path p in a tree, 0 where the tree has
\* no such path or key
ValueOr0(files, p, k) ==
    IF p \in DOMAIN files /\ k \in DOMAIN dict_to_series(files[p])
    THEN dict_to_series(files[p])[k] ELSE 0

\* the tuples yielded for a record path
RowsOf(p) ==
    {j \in 1..Len(last.rows) : last.rows[j].filename = Replace(p, ".stats.yaml", "")}

(***************************************************************************)
(* C17: for every record path that changed between a snapshot commit and   *)
(* its direct parent, the delta emitted for that path equals the value in  *)
(* the commit minus the value in the parent, a side on which the path does *)
(* not exist counting as an all-zero vector with the same keys: a newly    *)
(* added record has delta equal to its 'after' value, a deleted record has *)
(* delta equal to the negation of its previous value.                      *)
(***************************************************************************)
C17_DeltaIsAfterMinusBefore ==
    last.kind = "stats" =>
        \A p \in ChangedRecords : \A j \in RowsOf(p) :
            last.rows[j].delta =
                [k \in KeysOf(p) |->
                    Num(ValueOr0(CommitTree, p, k) - ValueOr0(ParentTree, p, k))]

\* the files of a pair the filters keep, each with its sign: +1 for the new
\* or kept path, -1 for a removed path
SignedFiles(pair) ==
    {sf \in ({pair[1], pair[2]} \ {None}) \X {1, -1} :
        /\ ~FilteredOut(last.filters, sf[1][1])
        /\ sf[2] = IF sf[1] = pair[2] THEN 1 ELSE -1}

\* sign * (after - before) of a pair, a missing side counting as zero
SignedDelta(pair, sign) ==
    With(IF pair[1] = None THEN pair[2][1] ELSE pair[1][1], LAMBDA old :
    With(IF pair[2] = None THEN pair[1][1] ELSE pair[2][1], LAMBDA new :
        [k \in DOMAIN dict_to_series(IF pair[2] = None THEN ParentTree[old]
                                     ELSE CommitTree[new]) |->
            Num(sign * ((IF pair[2] = None THEN 0 ELSE ValueOr0(CommitTree, new, k))
                        - (IF pair[1] = None THEN 0 ELSE ValueOr0(ParentTree, old, k))))]))

(***************************************************************************)
(* C18: for each changed record the delta reconstructor emits exactly one  *)
(* DeltaRecord per distinct non-null path among {old path, new path} that  *)
(* the caller's filters keep: one record with sign +1 when the record was  *)
(* added or modified in place, and for a rename two records, the new path  *)
(* carrying +(after - before) and the old path carrying -(after - before); *)
(* a removed path always gets sign -1. No other record is emitted.         *)
(***************************************************************************)
C18_OneRecordPerPath ==
    last.kind = "stats" =>
        /\ \A pair \in last.pairs : \A sf \in SignedFiles(pair) :
               /\ Cardinality(RowsOf(sf[1][1])) = 1
               /\ \A j \in RowsOf(sf[1][1]) :
                      last.rows[j].delta = SignedDelta(pair, sf[2])
        /\ Len(last.rows) =
               Cardinality(UNION {{sf[1] : sf \in SignedFiles(pair)} : pair \in last.pairs})

\* a record was renamed and its content changed: the new path carries the
\* difference and the old path its negation
C18_Witness ==
    /\ last.kind = "stats"
    /\ \E pair \in last.pairs :
           /\ pair[1] # None /\ pair[2] # None /\ pair[1] # pair[2]
           /\ ParentTree[pair[1][1]] # CommitTree[pair[2][1]]
           /\ Cardinality(SignedFiles(pair)) = 2
           /\ \E i, j \in 1..Len(last.rows) :
                  /\ last.rows[i].delta # last.rows[j].delta
                  /\ last.rows[i].filename = Replace(pair[2][1], ".stats.yaml", "")
                  /\ last.rows[j].filename = Replace(pair[1][1], ".stats.yaml", "")

\* a manifest entry is the record's own file, or lies inside the record's
\* directory (every entry for a record of the root)
Inside(entry, filename) ==
    IF EndsWith(filename, ".py") THEN entry = filename
    ELSE Dirname(filename) = "" \/ Dirname(filename) \in OsAncestors(entry)

(***************************************************************************)
(* C19: for an emitted DeltaRecord the raw line totals (lines, insertions, *)
(* deletions) are the sums over exactly those manifest entries whose file  *)
(* is the record's own file (per-file record) or lies inside the record's  *)
(* directory (aggregate record; every entry for a root aggregate); an      *)
(* entry outside that directory whose path merely begins with the same     *)
(* characters is not counted.                                              *)
(***************************************************************************)
C19_LinesInsideRecord ==
    last.kind = "stats" =>
        \A j \in 1..Len(last.rows) :
            last.rows[j].lines =
                LineTotal(CommitTree["LATEST_CHANGES.yaml"],
                          {e \in DOMAIN CommitTree["LATEST_CHANGES.yaml"] :
                              Inside(e, last.rows[j].filename)})

(***************************************************************************)
(* The sums and the subtraction of stat vectors, applied to operands that  *)
(* need not have the same keys: the records of a store are read from YAML  *)
(* files, and a record written with another set of metrics has other keys. *)
(***************************************************************************)
MaxOperands == 3

\* the stat vectors the operands are drawn from; the last lacks a category
SeriesChoices ==
    {dict_to_series(_analyze_file(1)[1]), dict_to_series(_analyze_file(2)[1]),
     (<<"stats", "lloc">> :> 3)}

\* the lists of at least one and at most MaxOperands operands
OperandLists == UNION {[1..n -> SeriesChoices] : n \in 1..MaxOperands}

\* _aggregate_dir, lines 266-281: the totals after the loop over the records
RECURSIVE DirTotals(_, _)
DirTotals(list, totals) ==
    IF list = <<>> THEN totals
    ELSE DirTotals(Tail(list), Some(AddToTotals(totals, Head(list), FALSE)))

SeriesInit ==
    /\ srcFiles = EmptyMap
    /\ srcDirs = SrcOfTree(EmptyMap).dirs
    /\ fsClass = "FileSystem"
    /\ StoreIsFresh
    /\ last = Op("init")
    /\ nOps = 0
    /\ commits = <<>>
    /\ snapshots = <<>>
    /\ \E operands \in OperandLists :
           replay = [pc |-> "series", incremental |-> FALSE, next |-> 0,
                     operands |-> operands]

\* the step an operation on the operands takes
Computed(kind, result) ==
    /\ replay.pc = "series"
    /\ last' = [kind |-> kind, changed |-> None, dirty |-> {}, result |-> result]
    /\ replay' = [replay EXCEPT !.pc = "done"]
    /\ nOps' = nOps + 1
    /\ UNCHANGED <<srcFiles, srcDirs, fsClass, disk, diskDirs, filesCache, dirsCache,
                   statsCache, gitIndex, err, runLog, commits, snapshots>>

\* _aggregate_dir: TOTAL of a directory whose records are the operands
AggregateDirTotal == Computed("dir", DirTotals(replay.operands, None)[1]["TOTAL"])

\* _aggregate_subtree, line 308: sum(subtotal_stats) of the operands
AggregateSubtreeTotal == Computed("subtree", SumSeries(replay.operands))

\* generate_stats_for_stats_fs_commits, line 93: after - before, before the
\* first operand and after the second
DeltaSubtract ==
    /\ Len(replay.operands) = 2
    /\ Computed("delta", SeriesMinus(replay.operands[2], replay.operands[1]))

SeriesNext ==
    \/ AggregateDirTotal
    \/ AggregateSubtreeTotal
    \/ DeltaSubtract

SpecSeries == SeriesInit /\ [][SeriesNext]_vars

\* the keys of the operands
OperandKeys == UNION {DOMAIN replay.operands[j] : j \in 1..Len(replay.operands)}

\* the value of key k in operand j, 0 when the operand has no such key
OperandOr0(j, k) ==
    IF k \in DOMAIN replay.operands[j] THEN replay.operands[j][k] ELSE 0

\* the sum of key k over the operands from j on, a missing key counting as 0
RECURSIVE SumFrom(_, _)
SumFrom(j, k) ==
    IF j > Len(replay.operands) THEN 0 ELSE OperandOr0(j, k) + SumFrom(j + 1, k)

(***************************************************************************)
(* C20: every aggregate sum (directory TOTAL, subtree SUBTREE_TOTAL) and   *)
(* every delta subtraction is computed over the union of the operands'     *)
(* (category, metric) keys, a key missing from one operand counting as     *)
(* zero, so the result has a defined numeric value for every key of either *)
(* operand.                                                                *)
(***************************************************************************)
C20_KeyUnionZeroFill ==
    /\ last.kind \in {"dir", "subtree"} =>
           last.result = [k \in OperandKeys |-> SumFrom(1, k)]
    /\ last.kind = "delta" =>
           last.result = [k \in OperandKeys |-> Num(OperandOr0(2, k) - OperandOr0(1, k))]

(***************************************************************************)
(* Calls on a store object (file_system.py): add_file, read, ls_files,     *)
(* ls_dirs, rm, rmdir and commit, in any order, on a store of any class    *)
(* that was just created. last holds the call that led to the state, the   *)
(* value it returned, and written: for every path the data of the last     *)
(* add_file whose write scope closed, None once rm was called on the path. *)
(***************************************************************************)
MaxCalls == 3

AllClasses == {"FileSystem", "GitStatsFileSystem", "GitIndexStatsFileSystem",
               "GitCachedStatsFileSystem", "GitCachedIndexStatsFileSystem"}

\* the paths, the data, the directories and the messages the calls draw from
CallFiles == {"f", "a/g", "a/b/h"}
CallData == {"hello", "bye"}
ListedDirs == {".", "a", "./a", "a/b"}
RemovedDirs == {"a", "a/b"}
CallMessages == {"my commit message", "Fix f  \n"}

CallsInit ==
    /\ srcFiles = EmptyMap
    /\ srcDirs = {"."}
    /\ fsClass \in AllClasses
    /\ StoreIsFresh
    /\ last = [kind |-> "init", changed |-> None, dirty |-> {}, path |-> "",
               value |-> None, written |-> EmptyMap]
    /\ nOps = 0
    /\ commits = <<>>
    /\ snapshots = <<>>
    /\ replay = [pc |-> "calls", incremental |-> FALSE, next |-> 0]

\* a call returned or raised: the store after, the value, and what is written
Called(kind, path, S, value, written) ==
    /\ replay.pc = "calls"
    /\ nOps < MaxCalls
    /\ err = ""
    /\ SetStore(S)
    /\ last' = [kind |-> kind, changed |-> None, dirty |-> {}, path |-> path,
                value |-> value, written |-> written]
    /\ nOps' = nOps + 1
    /\ UNCHANGED <<srcFiles, srcDirs, fsClass, commits, replay>>

\* with fs.add_file(path, deferred=...) as f: f.write(data)
CallAddFile ==
    \E path \in CallFiles, data \in CallData, deferred \in BOOLEAN :
    \E S \in {add_file(Store, path, data, deferred)} :
        /\ Called(IF deferred THEN "add_file deferred" ELSE "add_file", path, S, None,
                  IF S.err = "" THEN Put(last.written, path, Some(data))
                  ELSE last.written)
        /\ UNCHANGED snapshots

\* fs.read(path)
CallRead ==
    \E path \in CallFiles :
    \E r \in {read(Store, path)} :
        /\ Called("read", path, r.S, r.value, last.written)
        /\ UNCHANGED snapshots

\* fs.ls_files(path)
CallLsFiles ==
    \E path \in ListedDirs :
    \E r \in {ls_files(Store, path)} :
        /\ Called("ls_files", path, r.S, r.value, last.written)
        /\ UNCHANGED snapshots

\* fs.ls_dirs(path)
CallLsDirs ==
    \E path \in ListedDirs :
    \E r \in {ls_dirs(Store, path)} :
        /\ Called("ls_dirs", path, r.S, r.value, last.written)
        /\ UNCHANGED snapshots

\* fs.rm(path)
CallRm ==
    \E path \in CallFiles :
        /\ Called("rm", path, rm(Store, path), None, Put(last.written, path, None))
        /\ UNCHANGED snapshots

\* fs.rmdir(path)
CallRmdir ==
    \E path \in RemovedDirs :
        /\ Called("rmdir", path, rmdir(Store, path), None, last.written)
        /\ UNCHANGED snapshots

\* fs.commit(message), of the git classes
CallCommit ==
    \E message \in CallMessages :
    \E r \in {FsCommitCall(Store, snapshots, message)} :
        /\ IsGit(fsClass)
        /\ Called("commit", message, r.S, r.value, last.written)
        /\ snapshots' = r.snaps

CallsNext ==
    \/ CallAddFile
    \/ CallRead
    \/ CallLsFiles
    \/ CallLsDirs
    \/ CallRm
    \/ CallRmdir
    \/ CallCommit

SpecCalls == CallsInit /\ [][CallsNext]_vars

\* the store with the index checked out: the current working state
Working == _sync_working_tree(Store)

(***************************************************************************)
(* C21: for the cached store variants, after any sequence of add_file, rm  *)
(* and rmdir calls, ls_files(d) returns exactly the file names that an     *)
(* uncached listing of d in the current working state returns, for every   *)
(* directory d, whether it is addressed as '.', with a './' prefix or by a *)
(* nested path; a file written by add_file is listed and a file removed by *)
(* rm is neither listed nor present.                                       *)
(***************************************************************************)
C21_LsFilesMatchesUncached ==
    (replay.pc = "calls" /\ IsCached(fsClass) /\ err = "") =>
        /\ \A d \in ListedDirs :
               ls_files(Store, d).value = FileSystemLsFiles(Working, d)
        /\ last.kind \in {"add_file", "add_file deferred"} =>
               Basename(last.path) \in ls_files(Store, DirnameOrDot(last.path)).value
        /\ last.kind = "rm" =>
               /\ Basename(last.path) \notin ls_files(Store, DirnameOrDot(last.path)).value
               /\ ~OsIsFile(Working, OsResolve(last.path))

(***************************************************************************)
(* C22: for the cached store variants, after any sequence of add_file, rm  *)
(* and rmdir calls, ls_dirs(d) returns exactly the names of the            *)
(* subdirectories of d that exist in the current working state: never the  *)
(* name of a plain file written into d, never without an existing          *)
(* subdirectory (also when rmdir was called on one that is not empty and   *)
(* removed nothing), never with a subdirectory that was removed, for d the *)
(* root or a nested directory.                                             *)
(***************************************************************************)
C22_LsDirsMatchesWorkingState ==
    (replay.pc = "calls" /\ IsCached(fsClass) /\ err = "") =>
        \A d \in ListedDirs :
            OsIsDir(Working, OsResolve(d)) =>
                ls_dirs(Store, d).value = FileSystemLsDirs(Working, d)

(***************************************************************************)
(* C23: for every store variant, once add_file(path) has written data and  *)
(* its write scope has closed, read(path) returns exactly that data, also  *)
(* for a write staged in deferred mode in the index; read of a path that   *)
(* was never written returns None.                                         *)
(***************************************************************************)
C23_ReadReturnsWritten ==
    (replay.pc = "calls" /\ last.kind = "read" /\ err = "") =>
        IF last.path \in DOMAIN last.written
        THEN last.written[last.path] # None => last.value = last.written[last.path]
        ELSE last.value = None

(***************************************************************************)
(* C25: for every git-backed store variant, commit(message) returns the    *)
(* identifier of the snapshot commit it just created: a value that         *)
(* resolves in the store repository to the new head commit.                *)
(***************************************************************************)
C25_CommitReturnsId ==
    (replay.pc = "calls" /\ last.kind = "commit" /\ err = "") =>
        /\ last.value # None
        /\ RepoCommit(snapshots, last.value[1]) = Len(snapshots)

(***************************************************************************)
(* C26: for every git-backed store variant, head_message is None while the *)
(* store has no commit, and after commit(m) head_message begins with m;    *)
(* commit succeeds also when nothing changed since the previous commit.    *)
(***************************************************************************)
C26_HeadMessage ==
    (replay.pc = "calls" /\ IsGit(fsClass)) =>
        /\ snapshots = <<>> => head_message(snapshots) = None
        /\ last.kind = "commit" =>
               /\ err = ""
               /\ head_message(snapshots) # None
               /\ StartsWith(head_message(snapshots)[1], last.path)

(***************************************************************************)
(* Calls on the stats adapter of a store (stats_fs_adapter.py): set, get   *)
(* and rm, and a new adapter over the same store. last holds the call, the *)
(* value it returned, and sets: for every normalized path the vectors set  *)
(* so far, oldest first, none once rm was called on the path.              *)
(***************************************************************************)
AdapterPaths == {"my-dir/my-series", "./my-dir/my-series", "f.py"}

AdapterInit ==
    /\ srcFiles = EmptyMap
    /\ srcDirs = {"."}
    /\ fsClass \in AllClasses
    /\ StoreIsFresh
    /\ last = [kind |-> "init", changed |-> None, dirty |-> {}, path |-> "",
               value |-> None, sets |-> EmptyMap]
    /\ nOps = 0
    /\ commits = <<>>
    /\ snapshots = <<>>
    /\ replay = [pc |-> "adapter", incremental |-> FALSE, next |-> 0]

\* a call on the adapter returned or raised
AdapterCalled(kind, path, S, value, sets) ==
    /\ replay.pc = "adapter"
    /\ nOps < MaxCalls
    /\ err = ""
    /\ SetStore(S)
    /\ last' = [kind |-> kind, changed |-> None, dirty |-> {}, path |-> path,
                value |-> value, sets |-> sets]
    /\ nOps' = nOps + 1
    /\ UNCHANGED <<srcFiles, srcDirs, fsClass, commits, snapshots, replay>>

\* the vectors set at a path so far
SetsAt(path) ==
    IF NormalizePath(path) \in DOMAIN last.sets THEN last.sets[NormalizePath(path)]
    ELSE <<>>

\* adapter.set(path, series)
CallSet ==
    \E path \in AdapterPaths, series \in SeriesChoices :
    \E S \in {AdapterSet(Store, path, series)} :
        AdapterCalled("set", path, S, None,
                      IF S.err = ""
                      THEN Put(last.sets, NormalizePath(path), Append(SetsAt(path), series))
                      ELSE last.sets)

\* adapter.get(path)
CallGet ==
    \E path \in AdapterPaths :
    \E r \in {AdapterGet(Store, path)} :
        AdapterCalled("get", path, r.S, r.value, last.sets)

\* adapter.rm(path)
CallAdapterRm ==
    \E path \in AdapterPaths :
        AdapterCalled("rm", path, AdapterRm(Store, path), None,
                      Put(last.sets, NormalizePath(path), <<>>))

\* create_adapter_for_fs(fs) once more: an adapter with an empty cache
CallNewAdapter ==
    /\ statsCache # EmptyMap
    /\ AdapterCalled("adapter", "", NewStatsUpdater(Store), None, last.sets)

AdapterNext ==
    \/ CallSet
    \/ CallGet
    \/ CallAdapterRm
    \/ CallNewAdapter

SpecAdapter == AdapterInit /\ [][AdapterNext]_vars

(***************************************************************************)
(* C24: for the cached stats adapter, set(path, s) followed by get(path)   *)
(* returns a vector equal to s (same keys, same values), and after a later *)
(* set(path, s2) get(path) returns s2; the value persisted in the store    *)
(* for the path is the dictionary form of the last vector set.             *)
(***************************************************************************)
C24_GetReturnsLastSet ==
    (replay.pc = "adapter" /\ err = "") =>
        \A path \in AdapterPaths :
            SetsAt(path) # <<>> =>
                /\ AdapterGet(Store, path).value = Some(SetsAt(path)[Len(SetsAt(path))])
                /\ FsRead(Store, NormalizePath(path) \o ".stats.yaml")
                       = Some(series_to_dict(SetsAt(path)[Len(SetsAt(path))]))
                /\ (last.kind = "get" /\ last.path = path) =>
                       last.value = Some(SetsAt(path)[Len(SetsAt(path))])

\* a path was set to one vector, then to another, and get returned the second
C24_Witness ==
    /\ replay.pc = "adapter"
    /\ last.kind = "get"
    /\ Len(SetsAt(last.path)) = 2
    /\ SetsAt(last.path)[1] # SetsAt(last.path)[2]
    /\ last.value = Some(SetsAt(last.path)[2])

(***************************************************************************)
(* Whole runs, with the repositories they touch (core.py). W is            *)
(*   head    the position in the history the caller's HEAD names           *)
(*   files   the caller's index and working-tree files                     *)
(*   clone   the temporary clone: None, or Some of its head and files      *)
(* Q is a store S, the store's history snaps, and W. A run may be made to  *)
(* fail while it processes the source commit at position fail.at, at the   *)
(* step fail.point; fail.at = 0 is a run in which nothing fails.           *)
(***************************************************************************)
MaxFullRuns == 2

\* the steps of one iteration at which a reset, a store write or a commit
\* can fail
FailPoints == {"catch-up reset", "catch-up commit", "reset", "update", "commit"}

NoFailure == [at |-> 0, point |-> "none"]

\* _clone_source_repo, line 180: source_repo.clone(tmpdir, shared=True)
CloneSourceRepo(W, history) ==
    [W EXCEPT !.clone = Some([head |-> W.head, files |-> history[W.head].tree])]

\* _clone_source_repo, line 182: shutil.rmtree(tmpdir)
RemoveClone(W) == [W EXCEPT !.clone = None]

\* a reset that is made in the caller's repository
HeadResetInCaller(W, repo, history, i) ==
    [W EXCEPT !.head = IF i = 0 THEN W.head ELSE i,
              !.files = history[IF i = 0 THEN W.head ELSE i].tree]

\* source_repo.head.reset(commit, index=True, working_tree=True) on the
\* repository the name is bound to; i = 0 is commit=None, a reset to HEAD
HeadResetIn(W, repo, history, i) ==
    IF repo = "clone"
    THEN [W EXCEPT !.clone = Some([head |-> IF i = 0 THEN W.clone[1].head ELSE i,
                                   files |-> history[IF i = 0 THEN W.clone[1].head
                                                     ELSE i].tree])]
    ELSE [W EXCEPT !.head = IF i = 0 THEN W.head ELSE i,
                   !.files = history[IF i = 0 THEN W.head ELSE i].tree]

\* the exception leaves the generator: the store as it is, the history as
\* far as it was committed
Failed(S, snaps, W) == [S |-> Raise(S, "GitCommandError"), snaps |-> snaps, W |-> W]

\* an iteration in which the commit is made before the failure is raised
RunIterationCommitThenFail(Q, history, i, incremental, point) ==
    With(ChangedFiles(PrevTree(history, i), history[i].tree), LAMBDA changed_files :
    With(Visible([S |-> Q.S, snaps |-> Q.snaps], history, i, changed_files), LAMBDA V :
        Failed(V.S, V.snaps, HeadResetIn(Q.W, "clone", history, i))))

\* lines 236-278: one iteration of the loop for the commit at position i,
\* with the repositories, failing at point if point is a step of it
RunIteration(Q, history, i, incremental, point) ==
    With(ChangedFiles(PrevTree(history, i), history[i].tree), LAMBDA changed_files :
    IF incremental /\ i # 1 /\ point = "catch-up reset" THEN Failed(Q.S, Q.snaps, Q.W)
    ELSE
    With(IF incremental /\ i # 1 THEN HeadResetIn(Q.W, "clone", history, i - 1) ELSE Q.W,
         LAMBDA W1 :
    With(IF incremental
         THEN CatchUp([S |-> Q.S, snaps |-> Q.snaps], SrcOfTree(W1.clone[1].files),
                      history, i, changed_files)
         ELSE [S |-> Q.S, snaps |-> Q.snaps], LAMBDA R1 :
    IF incremental /\ point = "catch-up commit" THEN Failed(R1.S, Q.snaps, W1)
    ELSE IF point = "reset" THEN Failed(R1.S, R1.snaps, W1)
    ELSE
    With(HeadResetIn(W1, "clone", history, i), LAMBDA W2 :
    IF point = "update"
    THEN Failed(update(R1.S, SrcOfTree(history[i].tree), Some(changed_files)).S,
                R1.snaps, W2)
    ELSE
    With(Visible(R1, history, i, changed_files), LAMBDA V :
    IF point = "commit" THEN Failed(V.S, R1.snaps, W2)
    ELSE [S |-> V.S, snaps |-> V.snaps, W |-> W2])))))

\* lines 236-278: the loop from position i on
RECURSIVE RunLoop(_, _, _, _, _)
RunLoop(Q, history, i, incremental, fail) ==
    IF i > Len(history) \/ Q.S.err # "" THEN Q
    ELSE RunLoop(RunIteration(Q, history, i, incremental,
                              IF fail.at = i THEN fail.point ELSE "none"),
                 history, i + 1, incremental, fail)

\* lines 209-222: the baseline, after the reset of the clone to the parent
RunBaseline(Q, history, first, incremental) ==
    IF ~incremental /\ head_message(Q.snaps) = None
    THEN With(Baseline(Q.S, Q.snaps, history, first), LAMBDA R :
             [S |-> R.S, snaps |-> R.snaps,
              W |-> HeadResetIn(Q.W, "clone", history, first - 1)])
    ELSE Q

\* generate_stats_fs_commits_for_source_commits, consumed to its end or to the
\* exception: the with block removes the clone either way
RunReplay(Q, history, first, incremental, fail) ==
    With(RunLoop(RunBaseline([Q EXCEPT !.W = CloneSourceRepo(Q.W, history)],
                             history, first, incremental),
                 history, first, incremental, fail), LAMBDA Q1 :
        [Q1 EXCEPT !.W = RemoveClone(Q1.W)])

\* generate_stats_fs_commit_for_diff with the repositories: the first update
\* reads the clone at first_rev, the second reads the clone at second_rev or
\* the caller's working tree; failing makes the second update raise
RunDiffCommit(Q, history, first, second_rev, failing) ==
    With(HeadResetIn(CloneSourceRepo(Q.W, history), "clone", history,
                     RevPosition(history, first)), LAMBDA W1 :
    With(IF second_rev = None THEN W1
         ELSE HeadResetIn(W1, "clone", history, RevPosition(history, second_rev[1])),
         LAMBDA W2 :
    With(IF second_rev = None THEN W2.files ELSE W2.clone[1].files, LAMBDA after :
    With(ChangedFiles(W1.clone[1].files, after), LAMBDA changed_files :
    With(DiffBefore(Q.S, Q.snaps, history[RevPosition(history, first)], changed_files),
         LAMBDA R0 :
        IF failing
        THEN Failed(R0.S, R0.snaps, RemoveClone(W2))
        ELSE With(DiffAfter(R0, after, changed_files,
                            first \o ".." \o (IF second_rev = None THEN "<working tree>"
                                              ELSE second_rev[1])), LAMBDA R :
                 [S |-> R.S, snaps |-> R.snaps, W |-> RemoveClone(W2)]))))))

RunInit ==
    /\ srcFiles = EmptyMap
    /\ srcDirs = SrcOfTree(EmptyMap).dirs
    /\ fsClass \in GitClasses
    /\ StoreIsFresh
    /\ last = Op("init")
    /\ nOps = 0
    /\ commits = <<>>
    /\ snapshots = <<>>
    /\ replay = [pc |-> "source", incremental |-> FALSE, next |-> 0, clone |-> None]

\* the caller commits a change of the source tree
CallerCommit ==
    \E tree \in NextTrees(HeadTree(commits)) :
        /\ replay.pc = "source"
        /\ nOps = 0
        /\ Len(commits) < MaxCommits
        /\ srcFiles = HeadTree(commits)
        /\ commits' = Append(commits,
               [id |-> CommitIds[Len(commits) + 1], message |-> "Fix f\n",
                author |-> "alice", committer |-> "alice", tree |-> tree])
        /\ srcFiles' = tree
        /\ srcDirs' = SrcOfTree(tree).dirs
        /\ UNCHANGED <<fsClass, disk, diskDirs, filesCache, dirsCache, statsCache, gitIndex, err,
                       runLog, last, nOps, snapshots, replay>>

\* the caller rewrites a file of the working tree and does not commit
EditWorkingTree ==
    \E f \in DOMAIN HeadTree(commits) :
        /\ replay.pc = "source"
        /\ nOps = 0
        /\ srcFiles = HeadTree(commits)
        /\ srcFiles' = Put(srcFiles, f, 3 - srcFiles[f])
        /\ UNCHANGED <<srcDirs, fsClass, disk, diskDirs, filesCache, dirsCache, statsCache,
                       gitIndex, err, runLog, last, nOps, commits, snapshots, replay>>

\* the run's result becomes the state: srcFiles and srcDirs are the caller's
\* working tree, commits the history up to the caller's HEAD
Ran(Q, kind, args, failed) ==
    /\ SetStore(Q.S)
    /\ snapshots' = Q.snaps
    /\ srcFiles' = Q.W.files
    /\ srcDirs' = IF Q.W.files = srcFiles THEN srcDirs ELSE SrcOfTree(Q.W.files).dirs
    /\ commits' = SubSeq(commits, 1, Q.W.head)
    /\ replay' = [replay EXCEPT !.clone = Q.W.clone]
    /\ last' = [kind |-> kind, changed |-> None, dirty |-> {}, args |-> args,
                failed |-> failed]
    /\ nOps' = nOps + 1
    /\ UNCHANGED fsClass

\* the repositories before a run
Caller == [head |-> Len(commits), files |-> srcFiles, clone |-> replay.clone]

\* the state a range run starts from: the store rewound to the snapshot of the
\* commit the range starts after, and the caller's repositories
RunStart(start) ==
    With(Restart(snapshots, disk, diskDirs, commits[start].id), LAMBDA r :
        [S |-> OpenStore(fsClass, r.files, r.dirs), snaps |-> r.snaps, W |-> Caller])

\* the first position of the range
RangeFirst(whole, start) == IF whole THEN 1 ELSE start + 1

\* update_stats_fs_from_repo(stats_fs, source_repo, rev_range, incremental),
\* failing at the commit at position at, at the step point
RunRangeWith(incremental, whole, start, at, point) ==
    /\ replay.pc = "source"
    /\ nOps < MaxFullRuns
    /\ err = ""
    /\ IF whole THEN start = 1 ELSE start < Len(commits)
    /\ (at = 0) = (point = "none")
    /\ at # 0 => at >= RangeFirst(whole, start)
    /\ point = "catch-up reset" => incremental /\ at # 1
    /\ point = "catch-up commit" => incremental
    /\ \E Q \in {RunReplay(RunStart(start), commits, RangeFirst(whole, start), incremental,
                            [at |-> at, point |-> point])} :
           Ran(Q, "range", [incremental |-> incremental, whole |-> whole, start |-> start,
                            first |-> RangeFirst(whole, start)], at)

RunRange ==
    \E incremental \in BOOLEAN, whole \in BOOLEAN, start \in 1..Len(commits),
       at \in 0..Len(commits), point \in FailPoints \cup {"none"} :
        RunRangeWith(incremental, whole, start, at, point)

\* generate_stats_fs_commit_for_diff(stats_fs, source_repo, first_rev, second_rev)
RunDiff ==
    \E first_rev \in {None} \cup {Some(n) : n \in RevNames},
       second_rev \in {None, Some("HEAD")}, failing \in BOOLEAN :
        /\ replay.pc = "source"
        /\ nOps < MaxFullRuns
        /\ err = ""
        /\ commits # <<>>
        /\ With(IF first_rev = None THEN "HEAD" ELSE first_rev[1], LAMBDA first :
               /\ RevPosition(commits, first) >= 1
               /\ \E Q \in {RunDiffCommit([S |-> OpenStore(fsClass, disk, diskDirs),
                                           snaps |-> snapshots, W |-> Caller],
                                          commits, first, second_rev, failing)} :
                      Ran(Q, "diff", [first_rev |-> first_rev, second_rev |-> second_rev],
                          IF failing THEN 1 ELSE 0))

RunNext ==
    \/ CallerCommit
    \/ EditWorkingTree
    \/ RunRange
    \/ RunDiff

SpecRun == RunInit /\ [][RunNext]_vars

\* the snapshots of a history that were yielded for the source commit at
\* position k: the catch-up and baseline commits are made for no position
YieldedFor(snaps, k) == {j \in 1..Len(snaps) : snaps[j].of = k}

IsPrefixOf(s, t) == Len(s) <= Len(t) /\ SubSeq(t, 1, Len(s)) = s

\* the run with the arguments args in which nothing fails
Unfailing(args) ==
    RunReplay(RunStart(args.start), commits, args.first, args.incremental, NoFailure)

\* the history a run with the arguments args starts from
Started(args) == RunStart(args.start).snaps

C28_CallerUntouched ==
    [][nOps' = nOps + 1
       => /\ last'.kind \in {"range", "diff"}
          /\ commits' = commits
          /\ srcFiles' = srcFiles
          /\ srcDirs' = srcDirs
          /\ replay'.clone = None]_vars

\* a diff against a working tree with an uncommitted change has been made,
\* over a history of two commits whose first was reset to in the clone
C28_Witness ==
    /\ nOps = 1
    /\ last.kind = "diff"
    /\ last.args.second_rev = None
    /\ last.args.first_rev = Some("HEAD~1")
    /\ Len(commits) = 2
    /\ srcFiles # HeadTree(commits)
    /\ snapshots # <<>>
    /\ replay.clone = None

(***************************************************************************)
(* update called with its paths and ignore_patterns arguments, over source *)
(* trees that hold a file that is no Python file.                          *)
(***************************************************************************)
MaxOptionOps == 2

OptionFiles == {"f.py", "g.txt", "a/g.py", "a/b/h.py"}

\* patterns without metacharacters
IgnorePatterns == {"g", "a/"}

PathLists == {None, Some({"a"}), Some({"./a", "f.py"})}

OptionsInit ==
    /\ srcFiles \in {[f \in present |-> 1] :
                        present \in {c \in SUBSET OptionFiles : Cardinality(c) <= MaxInitial}}
    /\ srcDirs = TreeDirs(srcFiles)
    /\ fsClass \in FsClasses
    /\ StoreIsFresh
    /\ last = Op("init")
    /\ nOps = 0
    /\ commits = <<>>
    /\ snapshots = <<>>
    /\ replay = NoReplay

\* a file of the source tree is created
WriteOptionFile ==
    \E f \in OptionFiles \ DOMAIN srcFiles, c \in {1} :
        /\ nOps < MaxOptionOps
        /\ SourceStep
        /\ srcFiles' = Put(srcFiles, f, c)
        /\ srcDirs' = srcDirs \cup OsAncestors(f)

\* StatsUpdater.update(changed_files, paths=paths, ignore_patterns=...)
UpdateWithOptions ==
    \E changed_files \in {None} \cup {Some(c) : c \in {d \in SUBSET OptionFiles :
                                                           Cardinality(d) = MaxChanged}},
       paths \in PathLists, ignore_patterns \in SUBSET IgnorePatterns :
        /\ nOps < MaxOptionOps
        /\ Step
        /\ \E r \in {UpdateWith(Store, Src, changed_files, paths, ignore_patterns)} :
               /\ SetStore(r.S)
               /\ last' = [kind |-> "options", changed |-> changed_files,
                           dirty |-> r.dirty_dirs, paths |-> paths,
                           ignore |-> ignore_patterns]
        /\ UNCHANGED <<srcFiles, srcDirs, fsClass>>

OptionsNext ==
    \/ WriteOptionFile
    \/ UpdateWithOptions

SpecOptions == OptionsInit /\ [][OptionsNext]_vars

\* some pattern of the set is found in the path
Ignored(path, ignore_patterns) == \E pat \in ignore_patterns : Search(pat, path)

\* C29: an update writes no record for a source file whose name does not end
\* in '.py' or whose directory-joined path has a match of an ignore pattern
\* (a match in a directory name of the path counts), and it writes the
\* records of the other files: those the same update without ignore patterns
\* writes
C29_IgnoredFilesGetNoRecord ==
    [][(nOps' = nOps + 1 /\ last'.kind = "options")
       => /\ \A path \in runLog'.stored :
                 EndsWith(path, ".py") /\ ~Ignored(path, last'.ignore)
          /\ \A plain \in {UpdateWith(Store, Src, last'.changed, last'.paths, {}).S} :
                 (plain.err = "" /\ err' = "")
                 => runLog'.stored = {path \in plain.g.stored :
                                         ~Ignored(path, last'.ignore)}]_vars

\* a full update with the pattern 'a/' has passed over a/g.py and a text file
\* and has written the record of f.py
C29_Witness ==
    /\ last.kind = "options"
    /\ last.changed = None
    /\ last.paths = None
    /\ last.ignore = {"a/"}
    /\ {"f.py", "a/g.py", "g.txt"} \subseteq DOMAIN srcFiles
    /\ runLog.stored = {"./f.py"}
    /\ err = ""

\* the path lies under the listed path
LiesUnder(path, listed) ==
    \/ StartsWith(path, listed)
    \/ StartsWith(OsResolve(path), OsResolve(listed))

\* C30: when update is given a list of paths, a file is analyzed only if its
\* directory-joined path lies under one of the listed paths
C30_OnlyListedPathsAnalyzed ==
    (last.kind = "options" /\ last.paths # None)
    => \A path \in runLog.stored \cup runLog.failed :
           \E listed \in last.paths[1] : LiesUnder(path, listed)

\* a directory and its ancestors up to the root '.', by os.path.dirname
RECURSIVE UpToRoot(_)
UpToRoot(dir_path) ==
    IF dir_path = "." THEN {"."}
    ELSE {dir_path} \cup UpToRoot(DirnameOrDot(dir_path))

\* the file of the store that holds the record of a path
RecordFile(path) == OsResolve(NormalizePath(path \o ".stats.yaml"))

\* C31: update returns the empty set when it stored and removed no record;
\* otherwise it returns the directories in which it stored or removed a
\* record, with every ancestor of each up to the root '.'
C31_ReturnsDirtyAndAncestors ==
    [][(nOps' = nOps + 1 /\ last'.kind \in {"full", "incremental"} /\ err' = "")
       => last'.dirty =
              UNION {UpToRoot(DirnameOrDot(path)) :
                        path \in runLog'.stored
                                 \cup {q \in runLog'.removed :
                                           /\ RecordFile(q) \in DOMAIN disk
                                           /\ RecordFile(q) \notin DOMAIN disk'}}]_vars

(***************************************************************************)
(* update with parallel=True (stats.py 138-141, 202-213, 235-247): the     *)
(* files of a directory are analyzed by the workers of a pool, which       *)
(* finish in any order; the updater's thread takes the results from        *)
(* Pool.imap and stores them. replay holds the position of the update:     *)
(*   worklist   the (dir, files) pairs still to visit                      *)
(*   names      the files to analyze of the directory being visited        *)
(*   results    the results of the workers that have finished, by task     *)
(*   consumed   the tasks whose result the updater's thread has taken      *)
(*   next       the position in names of the next file to store            *)
(*   writes     the records written by this update, in order               *)
(*   aggregated the directories aggregated, each with the tasks whose      *)
(*              result was not taken when the aggregation started          *)
(*   propagated None, or Some of the number of directories not yet         *)
(*              visited when the subtree propagation started               *)
(***************************************************************************)
MaxParallelUpdates == 1

ParallelTrees ==
    UNION {[present -> Contents] :
              present \in {c \in SUBSET SourceFiles : Cardinality(c) <= MaxInitial}}

ParallelIdle ==
    [pc |-> "idle", worklist |-> <<>>, dir |-> ".", names |-> <<>>, results |-> EmptyMap,
     consumed |-> {}, next |-> 1, changed |-> FALSE, dirty |-> {}, writes |-> <<>>,
     aggregated |-> <<>>, propagated |-> None, overtaken |-> FALSE, start |-> None]

ParallelInit ==
    /\ srcFiles \in ParallelTrees
    /\ srcDirs = TreeDirs(srcFiles)
    /\ fsClass \in FsClasses
    /\ StoreIsFresh
    /\ last = Op("init")
    /\ nOps = 0
    /\ commits = <<>>
    /\ snapshots = <<>>
    /\ replay = ParallelIdle

\* the result a worker returns for a file: the result dict of _analyze_file
\* and the content its method list is made from
WorkerResult(content) == [dict |-> _analyze_file(content), content |-> content]

\* the iterator of imap_unordered: the result of the task that finished last
\* among those not taken
ImapUnorderedNext(finished, consumed, next) ==
    IF finished \ consumed = {} THEN next
    ELSE CHOOSE k \in finished \ consumed : \A j \in finished \ consumed : j <= k

\* Pool.imap (line 236), and map: the results come in the order of the tasks
ImapNext(finished, consumed, next) == next

\* update, lines 192-201: the directories to visit
StartParallelUpdate ==
    /\ replay.pc = "idle"
    /\ nOps < MaxParallelUpdates
    /\ err = ""
    /\ replay' = [ParallelIdle EXCEPT !.pc = "visit",
                                      !.worklist = _generate_dirs_and_files(Src, None),
                                      !.start = Some(Store)]
    /\ runLog' = EmptyLog
    /\ nOps' = nOps + 1
    /\ last' = Op("parallel start")
    /\ UNCHANGED <<srcFiles, srcDirs, fsClass, disk, diskDirs, filesCache, dirsCache,
                   statsCache, gitIndex, err, commits, snapshots>>

\* _visit_files_in_dir, lines 216-237: the files to analyze are handed to
\* the pool
SubmitFiles ==
    /\ replay.pc = "visit"
    /\ replay' = [replay EXCEPT
           !.pc = "analyzing",
           !.dir = replay.worklist[1].dir,
           !.names = SetToSeq(FilesToAnalyze(Src, replay.worklist[1].dir,
                                             replay.worklist[1].files, None, {})),
           !.results = EmptyMap,
           !.consumed = {},
           !.next = 1,
           !.changed = FALSE]
    /\ UNCHANGED <<srcFiles, srcDirs, fsClass, disk, diskDirs, filesCache, dirsCache,
                   statsCache, gitIndex, err, runLog, last, nOps, commits, snapshots>>

\* a worker finishes the analysis of a file
WorkerFinish ==
    \E i \in 1..Len(replay.names) :
        /\ replay.pc = "analyzing"
        /\ i \notin DOMAIN replay.results
        /\ replay' = [replay EXCEPT
               !.results = Put(replay.results, i,
                               WorkerResult(srcFiles[OsResolve(Join(replay.dir,
                                                                    replay.names[i]))])),
               !.overtaken = @ \/ \E j \in 1..(i - 1) : j \notin DOMAIN replay.results]
        /\ UNCHANGED <<srcFiles, srcDirs, fsClass, disk, diskDirs, filesCache, dirsCache,
                       statsCache, gitIndex, err, runLog, last, nOps, commits, snapshots>>

\* _visit_files_in_dir, lines 239-247: the loop body, for the next result of
\* the pool and the next file name
StoreNextResult ==
    \E k \in {ImapNext(DOMAIN replay.results, replay.consumed, replay.next)} :
        /\ replay.pc = "analyzing"
        /\ replay.next <= Len(replay.names)
        /\ k \in (DOMAIN replay.results) \ replay.consumed
        /\ \E path \in {Join(replay.dir, replay.names[replay.next])} :
               /\ SetStore(IF replay.results[k].dict # None
                           THEN StoreAnalyzed(Store, path, replay.results[k].content,
                                              replay.results[k].dict)
                           ELSE [Store EXCEPT !.g.failed = @ \cup {path}])
               /\ replay' = [replay EXCEPT
                      !.consumed = @ \cup {k},
                      !.next = @ + 1,
                      !.changed = @ \/ replay.results[k].dict # None,
                      !.writes = IF replay.results[k].dict # None
                                 THEN Append(@, [path |-> path,
                                                 content |-> replay.results[k].content])
                                 ELSE @]
        /\ UNCHANGED <<srcFiles, srcDirs, fsClass, last, nOps, commits, snapshots>>

\* _visit_files_in_dir, lines 249-260, and update, lines 205-208: the stale
\* files are removed and the directory is aggregated if it has changes
EndVisit ==
    /\ replay.pc = "analyzing"
    /\ replay.next > Len(replay.names)
    /\ \E stale \in {StaleStatsFiles(Store, Src, replay.dir, replay.worklist[1].files)} :
       \E U \in {[RemoveStale(FsLsFilesState(Store, replay.dir), replay.dir, stale)
                     EXCEPT !.g.visited = @ \cup {replay.dir}]} :
       \E has_changes \in {(replay.changed \/ stale # {}) /\ U.err = ""} :
           /\ SetStore(IF has_changes THEN _aggregate_dir(U, replay.dir) ELSE U)
           /\ replay' = [replay EXCEPT
                  !.pc = IF U.err # "" THEN "failed"
                         ELSE IF Len(replay.worklist) = 1 THEN "propagate" ELSE "visit",
                  !.worklist = Tail(@),
                  !.dirty = IF has_changes THEN @ \cup {replay.dir} ELSE @,
                  !.aggregated =
                      IF has_changes
                      THEN Append(@, [dir |-> replay.dir,
                                      pending |-> (1..Len(replay.names)) \ replay.consumed])
                      ELSE @]
    /\ UNCHANGED <<srcFiles, srcDirs, fsClass, last, nOps, commits, snapshots>>

\* update, lines 210-213: the subtree propagation and the return
Propagate ==
    /\ replay.pc = "propagate"
    /\ \E r \in {UpdateSubtrees([S |-> Store, dirty |-> replay.dirty])} :
           /\ SetStore(r.S)
           /\ last' = [kind |-> "parallel", changed |-> None, dirty |-> r.dirty_dirs]
    /\ replay' = [replay EXCEPT !.pc = "idle",
                                !.propagated = Some(Len(replay.worklist))]
    /\ UNCHANGED <<srcFiles, srcDirs, fsClass, nOps, commits, snapshots>>

ParallelNext ==
    \/ StartParallelUpdate
    \/ SubmitFiles
    \/ WorkerFinish
    \/ StoreNextResult
    \/ EndVisit
    \/ Propagate

SpecParallel == ParallelInit /\ [][ParallelNext]_vars

\* the update that analyzes in the updater's own thread, from the same state
Sequential == update(replay.start[1], Src, None)

\* C32: with parallel analysis, in whatever order the workers finish, each
\* result is stored under the path of the file it was computed from, no file
\* gets more than one record write in an update, a directory is aggregated
\* only when all results of the directory are stored, the subtree propagation
\* starts only when every directory is visited, and the update ends with the
\* store and the return value of the update that does not analyze in parallel
C32_ParallelStoresEachResultOnce ==
    replay.pc \in {"visit", "analyzing", "propagate", "idle", "failed"}
    => /\ \A j \in 1..Len(replay.writes) :
              replay.writes[j].content = srcFiles[OsResolve(replay.writes[j].path)]
       /\ \A j, k \in 1..Len(replay.writes) :
              replay.writes[j].path = replay.writes[k].path => j = k
       /\ \A j \in 1..Len(replay.aggregated) : replay.aggregated[j].pending = {}
       /\ replay.propagated # None => replay.propagated[1] = 0
       /\ (replay.pc = "idle" /\ last.kind = "parallel")
          => /\ Store = Sequential.S
             /\ last.dirty = Sequential.dirty_dirs

\* a parallel update has ended in which a worker finished before the worker
\* of an earlier file, and two records with different values were written
C32_Witness ==
    /\ replay.pc = "idle"
    /\ last.kind = "parallel"
    /\ err = ""
    /\ replay.overtaken
    /\ Len(replay.writes) = 2
    /\ replay.writes[1].content # replay.writes[2].content
    /\ DirnameOrDot(replay.writes[1].path) = DirnameOrDot(replay.writes[2].path)
    /\ Len(replay.aggregated) = 1

\* the record file that belongs to a method-list file of the store
RecordOfMethods(file) == SubSeq(file, 1, Len(file) - Len(".methods.yaml")) \o ".stats.yaml"

\* C33: after an update the store holds no method-list file
\* (<file>.methods.yaml) for a path that has no per-file record: the update
\* that removes the record of a deleted source file removes its method list
C33_NoMethodListWithoutRecord ==
    last.kind \in {"full", "incremental"}
    => \A file \in DOMAIN disk :
           EndsWith(file, ".methods.yaml") => RecordOfMethods(file) \in DOMAIN disk

\* the tree the next commit of the store records
NextCommitTree(S, snaps) ==
    With(FsCommitCall(S, snaps, "my commit message").snaps, LAMBDA after :
        after[Len(after)].tree)

\* C34: on every store class, rm(path) raises no error; after it read(path)
\* returns None and the tree of the next commit does not hold the file; rm of
\* a path that does not exist leaves the files of the store as they are
C34_RemovedFileIsAbsent ==
    [][(nOps' = nOps + 1 /\ last'.kind = "rm")
       => \A path \in {last'.path}, before \in {Store}, after \in {Store'} :
              /\ after.err = ""
              /\ read(after, path).value = None
              /\ IsGit(fsClass) => OsResolve(path) \notin DOMAIN NextCommitTree(after, snapshots)
              /\ read(before, path).value = None
                 => /\ _sync_working_tree(after).disk = _sync_working_tree(before).disk
                    /\ _sync_working_tree(after).dirs = _sync_working_tree(before).dirs]_vars

\* C35: for the cached adapter, after rm(path) and until the next set on the
\* path, get returns None for every spelling of the path; and get never
\* returns a value that differs from what the store holds for the path
C35_GetAfterRmIsAbsent ==
    (replay.pc = "adapter" /\ err = "") =>
        \A path \in AdapterPaths :
            /\ (NormalizePath(path) \in DOMAIN last.sets /\ SetsAt(path) = <<>>)
               => AdapterGet(Store, path).value = None
            /\ AdapterGet(Store, path).value = StatsFSAdapterGet(Store, NormalizePath(path))

\* the directories in which the update found changes: a result was stored or
\* a stale record was handed to _remove_stats_file
ChangedDirs(g) == {OsResolve(DirnameOrDot(path)) : path \in g.stored \cup g.removed}

\* the content of a store file, None when the store has no such file
FileAt(files, path) == IF path \in DOMAIN files THEN Some(files[path]) ELSE None

\* C36: an incremental update(changed_files) leaves unchanged every per-file
\* record whose source path is not in changed_files, every TOTAL* of a
\* directory that is not dirty and every SUBTREE_TOTAL* of a directory that
\* is neither dirty nor an ancestor of a dirty directory; with an empty
\* changed set the whole store is unchanged
C36_IncrementalFrame ==
    [][(nOps' = nOps + 1 /\ last'.kind = "incremental" /\ err' = "")
       => \A before \in {disk}, after \in {disk'}, changed \in {last'.changed[1]},
             dirty \in {ChangedDirs(runLog')} :
              /\ \A p \in RecordPaths(before) \cup RecordPaths(after) :
                     RecordSource(p) \notin changed => FileAt(after, p) = FileAt(before, p)
              /\ \A d \in diskDirs \cup diskDirs' \cup {"."}, name \in VariantNames :
                     /\ d \notin dirty
                        => FileAt(after, StatsFile(d, name)) = FileAt(before, StatsFile(d, name))
                     /\ (\A c \in dirty : d \notin UpToRoot(c))
                        => FileAt(after, StatsFile(d, "SUBTREE_" \o name))
                               = FileAt(before, StatsFile(d, "SUBTREE_" \o name))
              /\ changed = {} => after = before /\ diskDirs' = diskDirs]_vars

\* an incremental update of one changed file rewrote its record and left a
\* record, a TOTAL and a SUBTREE_TOTAL of another directory in the store
C36_Witness ==
    /\ last.kind = "incremental" /\ err = ""
    /\ last.changed = Some({"f.py"})
    /\ runLog.stored # {}
    /\ HasStats(disk, "a", "g.py") /\ HasStats(disk, "a", "TOTAL")
    /\ HasStats(disk, "a", "SUBTREE_TOTAL")
(***************************************************************************)
(* _aggregate_subtrees (stats.py 321-341) step by step: update visits the  *)
(* directories and pushes the dirty ones on a heap; each turn of the while *)
(* loop pops the least entry. replay holds the position of the loop:       *)
(*   heap      the paths on remaining_path_heap, with their multiplicity   *)
(*   finished  finished_paths                                              *)
(*   dirty     the directories update found dirty                          *)
(*   order     the directories whose subtree aggregate was recomputed      *)
(*   start     the store and the argument the update call started with     *)
(***************************************************************************)
MaxPropagations == 2

PropagationIdle ==
    [pc |-> "idle", heap |-> EmptyBag, finished |-> {}, dirty |-> {}, order |-> <<>>,
     start |-> None]

PropagationInit ==
    /\ srcFiles \in InitialTrees
    /\ srcDirs = TreeDirs(srcFiles)
    /\ fsClass \in FsClasses
    /\ StoreIsFresh
    /\ last = Op("init")
    /\ nOps = 0
    /\ commits = <<>>
    /\ snapshots = <<>>
    /\ replay = PropagationIdle

\* the arguments of the update calls: None, or a list of changed files
ChangedLists ==
    {None} \cup {Some(c) : c \in {c \in SUBSET SourceFiles : Cardinality(c) <= MaxChanged}}

\* the source tree changes between two updates: a file is deleted
DeleteBetweenUpdates ==
    \E f \in DOMAIN srcFiles :
        /\ replay.pc = "idle"
        /\ nOps < MaxPropagations
        /\ err = ""
        /\ nOps' = nOps + 1
        /\ srcFiles' = Drop(srcFiles, f)
        /\ last' = Op("source")
        /\ runLog' = EmptyLog
        /\ UNCHANGED <<srcDirs, fsClass, disk, diskDirs, filesCache, dirsCache, statsCache,
                       gitIndex, err, commits, snapshots, replay>>


\* a loop that skips a popped path only when it is the finished root
PopIsFinishedAtRoot(dir_path, finished_paths) == dir_path = "." /\ dir_path \in finished_paths

\* line 330: the popped path is skipped when it is in finished_paths
PopIsFinished(dir_path, finished_paths) == dir_path \in finished_paths

\* update, lines 192-208, and _aggregate_subtrees, lines 323-326: the
\* directories are visited and the dirty ones pushed on the heap
StartPropagation ==
    \E changed_files \in ChangedLists :
    \E visited \in {VisitAll([Store EXCEPT !.g = EmptyLog], Src,
                             _generate_dirs_and_files(Src, changed_files), {}, None, {})} :
        /\ replay.pc = "idle"
        /\ nOps < MaxPropagations
        /\ err = ""
        /\ nOps' = nOps + 1
        /\ SetStore(visited.S)
        /\ replay' = [PropagationIdle EXCEPT
               !.pc = IF visited.S.err # "" THEN "failed"
                      ELSE IF visited.dirty = {} THEN "idle" ELSE "heap",
               !.heap = SetToBag(visited.dirty),
               !.dirty = visited.dirty,
               !.start = Some([S |-> Store, changed |-> changed_files])]
        /\ last' = [kind |-> IF visited.dirty = {} THEN "propagated" ELSE "visited",
                    changed |-> changed_files, dirty |-> visited.dirty]
        /\ UNCHANGED <<srcFiles, srcDirs, fsClass, commits, snapshots>>

\* lines 329-331: the least entry is popped and skipped, it is finished
PopFinished ==
    /\ replay.pc = "heap"
    /\ replay.heap # EmptyBag
    /\ \E dir_path \in {HeapMin(BagToSet(replay.heap))} :
           /\ PopIsFinished(dir_path, replay.finished)
           /\ replay' = [replay EXCEPT !.heap = @ (-) SetToBag({dir_path})]
    /\ UNCHANGED <<srcFiles, srcDirs, fsClass, disk, diskDirs, filesCache, dirsCache,
                   statsCache, gitIndex, err, runLog, last, nOps, commits, snapshots>>

\* lines 329-339: the least entry is popped, its subtree aggregate recomputed
\* and its parent pushed
PopAggregate ==
    /\ replay.pc = "heap"
    /\ replay.heap # EmptyBag
    /\ \E dir_path \in {HeapMin(BagToSet(replay.heap))} :
       \E T \in {_aggregate_subtree(Store, dir_path)} :
           /\ ~PopIsFinished(dir_path, replay.finished)
           /\ SetStore([T EXCEPT !.g.order = Append(@, dir_path)])
           /\ replay' = [replay EXCEPT
                  !.pc = IF T.err # "" THEN "failed" ELSE @,
                  !.heap = (@ (-) SetToBag({dir_path})) (+) SetToBag({DirnameOrDot(dir_path)}),
                  !.finished = @ \cup {dir_path},
                  !.order = Append(@, dir_path)]
    /\ UNCHANGED <<srcFiles, srcDirs, fsClass, last, nOps, commits, snapshots>>

\* line 341 and update, lines 211-213: the heap is empty, the finished paths
\* are returned and added to the dirty directories
ReturnFinished ==
    /\ replay.pc = "heap"
    /\ replay.heap = EmptyBag
    /\ replay' = [replay EXCEPT !.pc = "idle"]
    /\ last' = [kind |-> "propagated", changed |-> last.changed,
                dirty |-> replay.dirty \cup replay.finished]
    /\ UNCHANGED <<srcFiles, srcDirs, fsClass, disk, diskDirs, filesCache, dirsCache,
                   statsCache, gitIndex, err, runLog, nOps, commits, snapshots>>

PropagationNext ==
    \/ DeleteBetweenUpdates
    \/ StartPropagation
    \/ PopFinished
    \/ PopAggregate
    \/ ReturnFinished

SpecPropagation == PropagationInit /\ [][PropagationNext]_vars

\* PopAggregate can take a step: the loop is running and the least entry of
\* the heap is not finished
PopAggregateEnabled ==
    /\ replay.pc = "heap"
    /\ replay.heap # EmptyBag
    /\ ~PopIsFinished(HeapMin(BagToSet(replay.heap)), replay.finished)

\* the while loop runs on, it is the only thread of the update: each of its
\* turns is taken when it stays enabled (for PopAggregate weak fairness is
\* written out, with PopAggregateEnabled for ENABLED <<PopAggregate>>_vars)
SpecPropagationFair ==
    /\ SpecPropagation
    /\ WF_vars(PopFinished)
    /\ WF_vars(ReturnFinished)
    /\ ([]<>~PopAggregateEnabled \/ []<><<PopAggregate>>_vars)
\* the number of times a directory had its subtree aggregate recomputed
Recomputed(order, dir_path) == Cardinality({i \in 1..Len(order) : order[i] = dir_path})

\* C37: the upward propagation terminates, the heap empties; each directory
\* has its subtree aggregate recomputed at most once per update call; the
\* recomputed directories are exactly the dirty directories and their
\* ancestors; the root is recomputed exactly once when a directory is dirty
C37_PropagationTerminates ==
    /\ [](\A i, j \in 1..Len(replay.order) : replay.order[i] = replay.order[j] => i = j)
    /\ []((replay.pc = "idle" /\ last.kind = "propagated" /\ err = "")
            => /\ {replay.order[i] : i \in 1..Len(replay.order)}
                      = UNION {UpToRoot(d) : d \in replay.dirty}
               /\ Recomputed(replay.order, ".") = IF replay.dirty = {} THEN 0 ELSE 1
               /\ last.dirty = {replay.order[i] : i \in 1..Len(replay.order)})
    /\ (replay.pc = "heap") ~> (replay.pc = "idle" /\ replay.heap = EmptyBag)

\* two directories were dirty, one the parent of the other: the parent was
\* on the heap twice, and three directories were recomputed
C37_Witness ==
    /\ replay.pc = "idle" /\ last.kind = "propagated" /\ err = ""
    /\ replay.dirty = {"a", "a/b"}
    /\ replay.order = <<"a/b", "a", ".">>

\* the commits of the store's history that are not tagged [ignore] and have
\* the source commit id as their first token
SnapshotsOf(snaps, hexsha) ==
    {j \in 1..Len(snaps) : /\ ~StartsWith(snaps[j].message, "[ignore]")
                           /\ FirstToken(snaps[j].message) = hexsha}

\* C38: after any sequence of runs of update_stats_fs_from_repo into the same
\* store, each source commit id is the first message token of at most one
\* commit not tagged [ignore] in the history reachable from the store's head
C38_OneSnapshotPerSourceCommit ==
    (replay.pc \in {"source", "done"} /\ err = "") =>
        \A k \in 1..Len(commits) : Cardinality(SnapshotsOf(snapshots, commits[k].id)) <= 1

(***************************************************************************)
(* The log command (commands/log.py 26-45): the source range is replayed   *)
(* in incremental mode into a store created for the run, oldest commit     *)
(* first or, by default, newest first (reversed=True). A source commit is  *)
(* named by its position in the history; position 0 is the empty tree      *)
(* (empty_sha).                                                            *)
(***************************************************************************)
MaxLogRuns == 1

\* generate_shas_for_source_range: the commits first..HEAD, newest first when
\* the generator is to run reversed
SourceShas(history, first, reversed) ==
    [j \in 1..(Len(history) - first + 1) |->
        IF reversed THEN Len(history) - j + 1 ELSE first + j - 1]

\* _get_parent_sha(source_repo, sha, empty_sha) in a linear history
ParentSha(sha) == sha - 1

\* lines 224-232: the iterator of previous commits; None stands for the
\* entry that the loop looks up
PrevShas(source_shas, reversed) ==
    IF reversed
    THEN [j \in 1..(Len(source_shas) - 1) |-> Some(source_shas[j + 1])] \o <<None>>
    ELSE <<Some(ParentSha(source_shas[1]))>>
         \o [j \in 1..Len(source_shas) |-> Some(source_shas[j])]

\* the history as one iteration of the loop sees it: the commit at position
\* prev_sha, none for the empty tree, and after it the commit at current_sha
PairHistory(history, current_sha, prev_sha) ==
    (IF prev_sha = 0 THEN <<>> ELSE <<history[prev_sha]>>) \o <<history[current_sha]>>

\* lines 236-278, the loop over zip(source_shas, prev_shas) in incremental
\* mode: R holds the store, its history and the pairs taken so far
RECURSIVE LogLoop(_, _, _, _, _)
LogLoop(R, src, history, source_shas, prev_shas) ==
    IF source_shas = <<>> \/ prev_shas = <<>> \/ R.S.err # "" THEN R
    ELSE With(source_shas[1], LAMBDA current_sha :
         With(IF prev_shas[1] = None THEN ParentSha(current_sha) ELSE prev_shas[1][1],
              LAMBDA prev_sha :
         With(PairHistory(history, current_sha, prev_sha), LAMBDA pair :
         With(ReplayOne(R.S, R.snaps, src, pair, Len(pair), TRUE), LAMBDA T :
             LogLoop([S |-> T.S, snaps |-> T.snaps,
                      pairs |-> Append(R.pairs, <<current_sha, prev_sha>>)],
                     SrcOfTree(history[current_sha].tree), history,
                     Tail(source_shas), Tail(prev_shas))))))

\* generate_stats_fs_commits_for_source_commits(incremental=True, reversed)
\* over the range first..HEAD into a store that was just created
LogWalk(cls, history, first, reversed) ==
    With(SourceShas(history, first, reversed), LAMBDA source_shas :
        LogLoop([S |-> FreshStore(cls), snaps |-> <<>>, pairs |-> <<>>],
                SrcOfTree(HeadTree(history)), history,
                source_shas, PrevShas(source_shas, reversed)))

LogInit ==
    /\ srcFiles = EmptyMap
    /\ srcDirs = SrcOfTree(EmptyMap).dirs
    /\ fsClass \in GitClasses
    /\ StoreIsFresh
    /\ last = Op("init")
    /\ nOps = 0
    /\ commits = <<>>
    /\ snapshots = <<>>
    /\ replay = [pc |-> "source", incremental |-> TRUE, next |-> 0]

\* the log command without --reverse (reversed) or with it, for the range
\* that starts at the commit at position first
LogCommand ==
    \E reversed \in BOOLEAN, first \in 1..Len(commits) :
    \E R \in {LogWalk(fsClass, commits, first, reversed)} :
        /\ replay.pc = "source"
        /\ nOps < MaxLogRuns
        /\ SetStore(R.S)
        /\ snapshots' = R.snaps
        /\ srcFiles' = commits[R.pairs[Len(R.pairs)][1]].tree
        /\ srcDirs' = SrcOfTree(srcFiles').dirs
        /\ last' = [kind |-> "log", changed |-> None, dirty |-> {}, reversed |-> reversed,
                    first |-> first, pairs |-> R.pairs]
        /\ nOps' = nOps + 1
        /\ UNCHANGED <<fsClass, commits, replay>>

LogNext ==
    \/ SourceCommit
    \/ LogCommand

SpecLog == LogInit /\ [][LogNext]_vars
\* lines 76-93 of generate_stats_for_stats_fs_commits for one record path:
\* after - before, a missing side is the zero series of the other
RecordDelta(prev, tree, p) ==
    With(IF p \in DOMAIN prev THEN Some(read_stats_file(prev[p])) ELSE None, LAMBDA loaded_before :
    With(IF p \in DOMAIN tree THEN Some(read_stats_file(tree[p])) ELSE None, LAMBDA loaded_after :
    With(IF loaded_before = None THEN zero_series(loaded_after[1]) ELSE loaded_before[1],
         LAMBDA before :
    With(IF loaded_after = None THEN zero_series(before) ELSE loaded_after[1], LAMBDA after :
        SeriesMinus(after, before)))))

\* the metric delta of a commit of the store against its parent: the delta
\* of every record path the two trees differ in
MetricDelta(prev, tree) ==
    [p \in {q \in RecordFilesOf(prev) \cup RecordFilesOf(tree) :
               FileAt(prev, q) # FileAt(tree, q)} |-> RecordDelta(prev, tree, p)]

\* the metric delta reconstructed for a source commit: its visible snapshot
\* commit against the direct parent of that commit
DeltaOfSourceCommit(snaps, hexsha) ==
    With(CHOOSE j \in SnapshotsOf(snaps, hexsha) : TRUE, LAMBDA j :
        MetricDelta(snaps[j - 1].tree, snaps[j].tree))

\* C39: for a linear range replayed in incremental mode, the metric delta
\* reconstructed for each source commit is the same when the range is walked
\* oldest first and newest first, for every record path; in the reversed
\* walk each commit is paired with the next older commit of the sequence and
\* the last one with its own parent
C39_ReversedWalkSameDeltas ==
    (last.kind = "log" /\ err = "") =>
        /\ last.reversed =>
               \A j \in 1..Len(last.pairs) :
                   last.pairs[j][2] = IF j < Len(last.pairs) THEN last.pairs[j + 1][1]
                                      ELSE ParentSha(last.pairs[j][1])
        /\ \A other \in {LogWalk(fsClass, commits, last.first, ~last.reversed)} :
               other.S.err = "" =>
                   \A k \in last.first..Len(commits) :
                       DeltaOfSourceCommit(snapshots, commits[k].id)
                           = DeltaOfSourceCommit(other.snaps, commits[k].id)
====
